---- MODULE Spec2Model ----
(***************************************************************************)
(* A model of the binary-orbit evolution engine of COMPAS                  *)
(* (src/src/BaseBinaryStar.cpp, src/src/utils.cpp).                        *)
(*                                                                         *)
(* Real numbers are exact rationals <<n, d>> with d > 0 and gcd(n, d) = 1. *)
(* Masses are in Msol, the semi-major axis in AU, radii in Rsol, as in the *)
(* source.  The constituent stars (BinaryConstituentStar) are an external  *)
(* collaborator: what they return is drawn from small sets.                *)
(***************************************************************************)
EXTENDS Integers, Sequences, FiniteSets, TLC

VARIABLES
    opt,      \* OPTIONS: the program options, fixed for one binary
    pc,       \* where the program is: constructor, Evolve loop, EvaluateBinary stage
    ctor,     \* the constructor's locals (what was sampled or given, loop flags)
    star1,    \* m_Star1
    star2,    \* m_Star2
    bin,      \* the members of BaseBinaryStar
    ev        \* the locals of Evolve(): evolutionStatus, stepNum, dt; what the stars
              \* answered in CalculateMassTransfer

vars == <<opt, pc, ctor, star1, star2, bin, ev>>

(***************************************************************************)
(* Bounds of the model.                                                    *)
(***************************************************************************)
MaxAttempts == 1          \* the sampling loop is followed for this many rejected samples
MaxStepsOption == 3       \* MaxNumberOfTimestepIterations ranges over 0 .. MaxStepsOption

(***************************************************************************)
(* Arithmetic on fractions <<numerator, denominator>>.                     *)
(***************************************************************************)
Abs(x) == IF x < 0 THEN -x ELSE x

RECURSIVE GCD(_, _)
\* (the remainder is bound to its value before the next step is taken)
GCD(a, b) == IF b = 0 THEN a ELSE CHOOSE g \in {GCD(b, r) : r \in {a % b}} : TRUE

NormBy(n, d, g) == IF d < 0 THEN <<(-n) \div g, (-d) \div g>> ELSE <<n \div g, d \div g>>
Norm(n, d) == NormBy(n, d, GCD(Abs(n), Abs(d)))

Q(n, d) == Norm(n, d)
Zero == <<0, 1>>
One == <<1, 1>>
Two == <<2, 1>>
Half == <<1, 2>>

Max(x, y) == IF x < y THEN y ELSE x

\* A double keeps 53 bits of a value; the model keeps about 14: a fraction whose
\* numerator or denominator has grown to 2^14 is shortened to the nearest below.
Shorten(n, d, k) == IF d \div k = 0 THEN <<n, d>> ELSE Norm(n \div k, d \div k)
Rounded(x) ==
    IF Abs(x[1]) < 16384 /\ x[2] < 16384
    THEN x
    ELSE Shorten(x[1], x[2], (Max(Abs(x[1]), x[2]) \div 16384) + 1)

\* sums and products cancel common factors first, to keep the integers small
AddBy(x, y, g) == Norm(x[1] * (y[2] \div g) + y[1] * (x[2] \div g), (x[2] \div g) * y[2])
RAdd(x, y) == Rounded(AddBy(x, y, GCD(x[2], y[2])))
RNeg(x) == <<-x[1], x[2]>>
RSub(x, y) == RAdd(x, RNeg(y))
MulBy(x, y, g, h) ==
    Norm((x[1] \div g) * (y[1] \div h), (x[2] \div h) * (y[2] \div g))
RMul(x, y) ==
    IF x[1] = 0 \/ y[1] = 0 THEN <<0, 1>>
    ELSE Rounded(MulBy(x, y, GCD(Abs(x[1]), y[2]), GCD(Abs(y[1]), x[2])))
RDiv(x, y) == IF y[1] < 0 THEN RMul(x, <<-y[2], -y[1]>>) ELSE RMul(x, <<y[2], y[1]>>)
RLt(x, y) == x[1] * y[2] < y[1] * x[2]
RLe(x, y) == x[1] * y[2] <= y[1] * x[2]
RAbs(x) == <<Abs(x[1]), x[2]>>
RFloor(x) == x[1] \div x[2]

\* utils::Compare: -1, 0 or 1.  The tolerance of the COMPARE_WITH_TOLERANCE build
\* (5e-7) is below the spacing of every value the model draws.
Compare(x, y) == IF x = y THEN 0 ELSE IF RLt(x, y) THEN -1 ELSE 1

(***************************************************************************)
(* Program constants (constants.h).                                        *)
(***************************************************************************)
AU_TO_RSOL == <<215, 1>>
RSOL_TO_AU == <<1, 215>>
DEFAULT_INITIAL_DOUBLE_VALUE == Zero
DEFAULT_INITIAL_ULONGINT_VALUE == 0

MAIN_SEQUENCE == {"MS_LTE_07", "MS_GT_07"}
ALL_MAIN_SEQUENCE == {"MS_LTE_07", "MS_GT_07", "NAKED_HELIUM_STAR_MS"}
ALL_HERTZSPRUNG_GAP == {"HERTZSPRUNG_GAP", "NAKED_HELIUM_STAR_HERTZSPRUNG_GAP"}
COMPACT_OBJECTS ==
    {"HELIUM_WHITE_DWARF", "CARBON_OXYGEN_WHITE_DWARF", "NEUTRON_STAR", "BLACK_HOLE"}
STRIPPED_HELIUM == {"NAKED_HELIUM_STAR_HERTZSPRUNG_GAP", "NAKED_HELIUM_STAR_GIANT_BRANCH"}

(***************************************************************************)
(* CalculateRocheLobeRadius_Static (Eggleton 1983): the Roche-lobe radius  *)
(* in units of the semi-major axis, a function of q = primary / secondary  *)
(* alone.  The cube root and the logarithm are tabulated: the value is a   *)
(* fraction close to the formula's at the grid point q in                  *)
(* {1/4, 1/2, 1, 2, 4} nearest to q (0.268, 0.321, 0.379, 0.440, 0.501).   *)
(***************************************************************************)
RocheLobeTable(n, d) ==
    IF 8 * n < 3 * d THEN Q(1, 4)
    ELSE IF 4 * n < 3 * d THEN Q(1, 3)
    ELSE IF 2 * n < 3 * d THEN Q(3, 8)
    ELSE IF n < 3 * d THEN Q(4, 9)
    ELSE Q(1, 2)

CalculateRocheLobeRadius_Static(massPrimary, massSecondary) ==
    RocheLobeTable(massPrimary[1] * massSecondary[2], massSecondary[1] * massPrimary[2])

\* rocheLobeTracker: stellar radius over Roche-lobe radius at periastron
RocheLobeTracker(radius, a, e, massPrimary, massSecondary) ==
    RDiv(RMul(radius, RSOL_TO_AU),
         RMul(RMul(a, RSub(One, e)), CalculateRocheLobeRadius_Static(massPrimary, massSecondary)))

\* rlof = either tracker > 1
RlofAtBirth(r1, r2, a, e, mass1, mass2) ==
    \/ Compare(RocheLobeTracker(r1, a, e, mass1, mass2), One) > 0
    \/ Compare(RocheLobeTracker(r2, a, e, mass2, mass1), One) > 0

(***************************************************************************)
(* Vectors (vector3d.h) are triples of whole km/s, and angles are counted  *)
(* in quarter turns, so that a rotation by Euler angles is exact.          *)
(***************************************************************************)
M_PI == 2
_2_PI == 4

\* nan("")
NaN == <<0, 0>>

\* Vector3d(): the null vector
Vector3d == <<0, 0, 0>>

VAdd(u, v) == <<u[1] + v[1], u[2] + v[2], u[3] + v[3]>>

\* the largest whole number whose square does not exceed n
WholeRoot(n) == CHOOSE m \in 0 .. n : m * m <= n /\ (m + 1) * (m + 1) > n

\* Vector3d::Magnitude, to a whole km/s
Magnitude(v) == WholeRoot(v[1] * v[1] + v[2] * v[2] + v[3] * v[3])

cos(k) == CASE k % 4 = 0 -> 1 [] k % 4 = 2 -> -1 [] OTHER -> 0
sin(k) == CASE k % 4 = 1 -> 1 [] k % 4 = 3 -> -1 [] OTHER -> 0

\* rotations about the Z and the X axis
AboutZ(v, k) == <<cos(k) * v[1] - sin(k) * v[2], sin(k) * v[1] + cos(k) * v[2], v[3]>>
AboutX(v, k) == <<v[1], cos(k) * v[2] - sin(k) * v[3], sin(k) * v[2] + cos(k) * v[3]>>

\* Vector3d::RotateVector: about Z by psi, about X by theta, about Z by phi
RotateVector(v, thetaE, phiE, psiE) == AboutZ(AboutX(AboutZ(v, psiE), thetaE), phiE)

(***************************************************************************)
(* The constituent star, as the binary sees it.                            *)
(***************************************************************************)
ZAMSType(mass) == IF RLe(mass, Q(7, 10)) THEN "MS_LTE_07" ELSE "MS_GT_07"

NewStar(mass, radius) ==
    [mass |-> mass, massPrev |-> mass, radius |-> radius, coreMass |-> Zero,
     type |-> ZAMSType(mass), isRLOF |-> FALSE, mtDiff |-> Zero, mlDiff |-> Zero,
     snEvent |-> FALSE, velocity |-> <<0, 0, 0>>, runaway |-> FALSE]

NoStar == NewStar(Zero, Zero)

(***************************************************************************)
(* OPTIONS.  DefaultOptions holds the value of every option the engine     *)
(* reads; each specification varies the ones its operations read.          *)
(***************************************************************************)
DefaultOptions ==
    [AllowRLOFAtBirth |-> FALSE,
     AllowTouchingAtBirth |-> FALSE,
     MinimumMassSecondary |-> Q(1, 10),
     AIS_RefinementPhase |-> FALSE,
     InitialMassFunctionMin |-> Q(5, 1),
     InitialMassFunctionMax |-> Q(150, 1),
     MassRatioDistributionMin |-> Q(1, 100),
     MassRatioDistributionMax |-> One,
     SemiMajorAxisDistributionMin |-> Q(1, 100),
     SemiMajorAxisDistributionMax |-> Q(1000, 1),
     CHE_Option |-> "NONE",
     UseMassTransfer |-> TRUE,
     UseMassLoss |-> FALSE,
     CirculariseBinaryDuringMassTransfer |-> FALSE,
     AngularMomentumConservationDuringCircularisation |-> FALSE,
     MassTransferCriticalMassRatio |-> {},
     CaseBBStabilityPrescription |-> "ALWAYS_STABLE",
     MassTransferAngularMomentumLossPrescription |-> "ISOTROPIC_RE_EMISSION",
     MassTransferJloss |-> One,
     MassTransferFractionAccreted |-> One,
     AllowMainSequenceStarToSurviveCommonEnvelope |-> FALSE,
     CommonEnvelopeAlpha |-> One,
     EvolveUnboundSystems |-> FALSE,
     MaxNumberOfTimestepIterations |-> MaxStepsOption,
     MaxEvolutionTime |-> Q(100, 1),
     RLOFPrinting |-> FALSE,
     BeBinaries |-> FALSE]

(***************************************************************************)
(* The members of BaseBinaryStar before SetRemainingCommonValues ran.      *)
(***************************************************************************)
\* "RLOF details - properties 1", "properties 2": the values SetRemainingCommonValues gives
RLOFPropertiesT ==
    [stellarType1 |-> "NONE", stellarType2 |-> "NONE",
     mass1 |-> DEFAULT_INITIAL_DOUBLE_VALUE, mass2 |-> DEFAULT_INITIAL_DOUBLE_VALUE,
     radius1 |-> DEFAULT_INITIAL_DOUBLE_VALUE, radius2 |-> DEFAULT_INITIAL_DOUBLE_VALUE,
     separation |-> DEFAULT_INITIAL_DOUBLE_VALUE,
     eventCounter |-> DEFAULT_INITIAL_ULONGINT_VALUE,
     time |-> DEFAULT_INITIAL_DOUBLE_VALUE,
     isRLOF1 |-> FALSE, isRLOF2 |-> FALSE, isCE |-> FALSE]

\* "BeBinary details - properties 1", "properties 2"
BeBinaryPropertiesT ==
    [dt |-> DEFAULT_INITIAL_DOUBLE_VALUE, totalTime |-> DEFAULT_INITIAL_DOUBLE_VALUE,
     massNS |-> DEFAULT_INITIAL_DOUBLE_VALUE,
     companionMass |-> DEFAULT_INITIAL_DOUBLE_VALUE,
     companionRadius |-> DEFAULT_INITIAL_DOUBLE_VALUE,
     separation |-> DEFAULT_INITIAL_DOUBLE_VALUE,
     eccentricity |-> DEFAULT_INITIAL_DOUBLE_VALUE]

BlankBinary ==
    [a |-> Zero, e |-> Zero, aPrev |-> Zero, ePrev |-> Zero,
     aInitial |-> Zero, eInitial |-> Zero,
     massesEquilibrated |-> FALSE, massesEquilibratedAtBirth |-> FALSE,
     totalMass |-> Zero, totalMassPrev |-> Zero,
     time |-> Zero, dt |-> Zero, timePrev |-> Zero,
     aMassLossDiff |-> Zero, aMassTransferDiff |-> Zero,
     tracker |-> "NO_MASS_TRANSFER", massTransfer |-> FALSE,
     jLoss |-> Zero, fractionAccreted |-> Zero,
     CEEcount |-> 0, CEEnow |-> FALSE, doubleCoreCE |-> FALSE, optimisticCE |-> FALSE,
     preCEE |-> [semiMajorAxis |-> DEFAULT_INITIAL_DOUBLE_VALUE,
                 eccentricity |-> DEFAULT_INITIAL_DOUBLE_VALUE],
     postCEE |-> [semiMajorAxis |-> DEFAULT_INITIAL_DOUBLE_VALUE,
                  eccentricity |-> DEFAULT_INITIAL_DOUBLE_VALUE],
     stellarMerger |-> FALSE, stellarMergerAtBirth |-> FALSE,
     mass1Final |-> Zero, mass2Final |-> Zero, massEnv1 |-> Zero, massEnv2 |-> Zero,
     zetaLobe |-> Zero, zetaStar |-> Zero,
     supernovaState |-> "NONE",
     aPreSN |-> Zero, ePreSN |-> Zero, orbitalVelocityPreSN |-> Zero, uK |-> Zero,
     thetaE |-> 0, phiE |-> 0, psiE |-> 0, iPrime |-> 0,
     systemicVelocity |-> <<0, 0, 0>>, systemicSpeed |-> 0,
     merged |-> FALSE, mergesInHubbleTime |-> FALSE, unbound |-> FALSE,
     printExtra |-> FALSE,
     stableRLOFPostCEE |-> FALSE, simultaneousRLOF |-> FALSE,
     donor |-> 0, accretor |-> 0, supernova |-> 0, companion |-> 0,
     aAtDCOFormation |-> Zero, eAtDCOFormation |-> Zero,
     timeToCoalescence |-> Zero,
     RLOFDetails |-> [props1 |-> RLOFPropertiesT, props2 |-> RLOFPropertiesT,
                      currentProps |-> "unset", previousProps |-> "unset"],
     BeBinaryDetails |-> [props1 |-> BeBinaryPropertiesT, props2 |-> BeBinaryPropertiesT,
                          currentProps |-> "unset", previousProps |-> "unset"],
     error |-> "NONE"]

(***************************************************************************)
(* The constructors.                                                       *)
(***************************************************************************)

\* an equilibration that leaves the orbit eccentric
EquilibrateWithoutCircularising(mass1, mass2, a, e) ==
    [mass |-> RDiv(RAdd(mass1, mass2), Two), a |-> a, e |-> e]

\* 16.0 * m1m2 * m1m2 / (M * M * M * M) * (1.0 - (e * e))
CircularisationFactor(M, m1m2, e) ==
    RMul(RDiv(RMul(RMul(Q(16, 1), m1m2), m1m2), RMul(RMul(M, M), RMul(M, M))),
         RSub(One, RMul(e, e)))

\* the orbit once both masses are m: M and m1m2 are computed from the equal masses
EquilibratedOrbit(m, a, e) ==
    [mass |-> m, a |-> RMul(a, CircularisationFactor(RAdd(m, m), RMul(m, m), e)), e |-> Zero]

\* "equilibrate masses", then "circularise; conserve angular momentum", in the order
\* the constructors do them
EquilibrateAtBirth(mass1, mass2, a, e) ==
    EquilibratedOrbit(RDiv(RAdd(mass1, mass2), Two), a, e)

\* merger = (m_SemiMajorAxis * AU_TO_RSOL) < (m_Star1->Radius() + m_Star2->Radius())
TouchingAtBirth(a, r1, r2) == RLt(RMul(a, AU_TO_RSOL), RAdd(r1, r2))

\* secondarySmallerThanMinimumMass
SecondaryTooSmall(o, mass2) == Compare(mass2, o.MinimumMassSecondary) < 0

\* initialParametersOutsideParameterSpace
OutsideParameterSpace(o, mass1, massRatio, a) ==
    /\ o.AIS_RefinementPhase
    /\ \/ Compare(mass1, o.InitialMassFunctionMin) < 0
       \/ Compare(mass1, o.InitialMassFunctionMax) > 0
       \/ Compare(massRatio, o.MassRatioDistributionMin) < 0
       \/ Compare(massRatio, o.MassRatioDistributionMax) > 0
       \/ Compare(a, o.SemiMajorAxisDistributionMin) < 0
       \/ Compare(a, o.SemiMajorAxisDistributionMax) > 0

\* a loop condition that forgets the minimum secondary mass
SampleRejectedNoSecondaryCheck(o, rlof, merger, small, outside) ==
    \/ (~o.AllowRLOFAtBirth /\ rlof)
    \/ (~o.AllowTouchingAtBirth /\ merger)
    \/ outside

\* a loop condition that forgets the touching stars
SampleRejectedNoTouchingCheck(o, rlof, merger, small, outside) ==
    \/ (~o.AllowRLOFAtBirth /\ rlof)
    \/ small
    \/ outside

\* the condition of the do ... while: the sample is rejected and another is drawn
SampleRejected(o, rlof, merger, small, outside) ==
    \/ (~o.AllowRLOFAtBirth /\ rlof)
    \/ (~o.AllowTouchingAtBirth /\ merger)
    \/ small
    \/ outside

\* the binary after equilibration eq, with the stars made again (radii r1e, r2e)
EquilibratedConfiguration(rlof, eq, r1e, r2e) ==
    [rlof |-> rlof, equilibrated |-> TRUE, mass1 |-> eq.mass, mass2 |-> eq.mass,
     a |-> eq.a, e |-> eq.e, s1 |-> NewStar(eq.mass, r1e), s2 |-> NewStar(eq.mass, r2e)]

\* The body both constructors share once the stars are made and rlof is known: when
\* overflow at birth is allowed and happens, the masses are equilibrated, the orbit
\* circularised and the stars made again.
BirthConfiguration(o, rlof, mass1, mass2, a, e, r1, r2, r1e, r2e) ==
    IF rlof /\ o.AllowRLOFAtBirth
    THEN EquilibratedConfiguration(rlof, EquilibrateAtBirth(mass1, mass2, a, e), r1e, r2e)
    ELSE [rlof |-> rlof, equilibrated |-> FALSE, mass1 |-> mass1, mass2 |-> mass2,
          a |-> a, e |-> e, s1 |-> NewStar(mass1, r1), s2 |-> NewStar(mass2, r2)]

\* the stellar type SetRemainingCommonValues leaves a star with: with CHE enabled the
\* star is CH when its rotational frequency reaches OmegaCHE (isCH), else MS by MZAMS
BirthType(o, s, isCH) ==
    IF o.CHE_Option = "NONE" THEN s.type
    ELSE IF isCH THEN "CHEMICALLY_HOMOGENEOUS"
    ELSE IF RLe(s.mass, Q(7, 10)) THEN "MS_LTE_07"
    ELSE "MS_GT_07"

\* SetRemainingCommonValues: the binary's members once the orbit and the stars are set
\* (a, e, the equilibration flags and m_Error were set before and are kept)
SetRemainingCommonValues(o, b, s1, s2) ==
    [a |-> b.a, e |-> b.e, aPrev |-> b.a, ePrev |-> b.e,
     aInitial |-> b.a, eInitial |-> b.e,
     massesEquilibrated |-> b.massesEquilibrated,
     massesEquilibratedAtBirth |-> b.massesEquilibratedAtBirth,
     totalMass |-> RAdd(s1.mass, s2.mass), totalMassPrev |-> RAdd(s1.mass, s2.mass),
     time |-> DEFAULT_INITIAL_DOUBLE_VALUE, dt |-> DEFAULT_INITIAL_DOUBLE_VALUE,
     timePrev |-> DEFAULT_INITIAL_DOUBLE_VALUE,
     aMassLossDiff |-> DEFAULT_INITIAL_DOUBLE_VALUE,
     aMassTransferDiff |-> DEFAULT_INITIAL_DOUBLE_VALUE,
     tracker |-> "NO_MASS_TRANSFER", massTransfer |-> FALSE,
     jLoss |-> o.MassTransferJloss, fractionAccreted |-> o.MassTransferFractionAccreted,
     CEEcount |-> 0, CEEnow |-> FALSE, doubleCoreCE |-> FALSE, optimisticCE |-> FALSE,
     preCEE |-> [semiMajorAxis |-> DEFAULT_INITIAL_DOUBLE_VALUE,
                 eccentricity |-> DEFAULT_INITIAL_DOUBLE_VALUE],
     postCEE |-> [semiMajorAxis |-> DEFAULT_INITIAL_DOUBLE_VALUE,
                  eccentricity |-> DEFAULT_INITIAL_DOUBLE_VALUE],
     stellarMerger |-> FALSE, stellarMergerAtBirth |-> FALSE,
     mass1Final |-> DEFAULT_INITIAL_DOUBLE_VALUE, mass2Final |-> DEFAULT_INITIAL_DOUBLE_VALUE,
     massEnv1 |-> DEFAULT_INITIAL_DOUBLE_VALUE, massEnv2 |-> DEFAULT_INITIAL_DOUBLE_VALUE,
     zetaLobe |-> DEFAULT_INITIAL_DOUBLE_VALUE, zetaStar |-> DEFAULT_INITIAL_DOUBLE_VALUE,
     supernovaState |-> "NONE",
     aPreSN |-> DEFAULT_INITIAL_DOUBLE_VALUE, ePreSN |-> DEFAULT_INITIAL_DOUBLE_VALUE,
     orbitalVelocityPreSN |-> DEFAULT_INITIAL_DOUBLE_VALUE,
     uK |-> DEFAULT_INITIAL_DOUBLE_VALUE,
     thetaE |-> 0, phiE |-> 0, psiE |-> 0, iPrime |-> 0,
     systemicVelocity |-> Vector3d, systemicSpeed |-> 0,
     merged |-> FALSE, mergesInHubbleTime |-> FALSE, unbound |-> FALSE,
     printExtra |-> FALSE,
     stableRLOFPostCEE |-> FALSE, simultaneousRLOF |-> FALSE,
     donor |-> 0, accretor |-> 0, supernova |-> 0, companion |-> 0,
     aAtDCOFormation |-> DEFAULT_INITIAL_DOUBLE_VALUE, eAtDCOFormation |-> DEFAULT_INITIAL_DOUBLE_VALUE,
     timeToCoalescence |-> DEFAULT_INITIAL_DOUBLE_VALUE,
     RLOFDetails |-> [props1 |-> RLOFPropertiesT, props2 |-> RLOFPropertiesT,
                      currentProps |-> "props1", previousProps |-> "props2"],
     BeBinaryDetails |-> [props1 |-> BeBinaryPropertiesT, props2 |-> BeBinaryPropertiesT,
                          currentProps |-> "props1", previousProps |-> "props2"],
     error |-> b.error]

\* SetInitialCommonValues
SetInitialCommonValues(b) == [b EXCEPT !.error = "NONE"]

(***************************************************************************)
(* What the constructors draw from.                                        *)
(***************************************************************************)
MassSamples == {Q(4, 1), Q(8, 1)}
QSamples == {Q(1, 4), One}
SemiMajorAxisSamples == {Q(1, 100), Q(1, 10), One}
EccentricitySamples == {Zero, Half}
ZAMSRadii == {One, Q(4, 1)}

BirthOptions ==
    {[DefaultOptions EXCEPT !.AllowRLOFAtBirth = r, !.AllowTouchingAtBirth = t,
                            !.MinimumMassSecondary = m, !.AIS_RefinementPhase = s[1],
                            !.CHE_Option = s[2]] :
        r \in BOOLEAN, t \in BOOLEAN, m \in {Q(1, 10), Q(3, 2)},
        s \in {<<FALSE, "NONE">>}}
    \cup
    {[DefaultOptions EXCEPT !.AllowRLOFAtBirth = r, !.AllowTouchingAtBirth = r,
                            !.AIS_RefinementPhase = s[1], !.CHE_Option = s[2]] :
        r \in BOOLEAN, s \in {<<TRUE, "NONE">>, <<FALSE, "OPTIMISTIC">>}}

\* the radii the stars made again after equilibration may have (a star
\* that is not made again keeps its radius)
RemadeRadii(o, rlof, r) == IF o.AllowRLOFAtBirth /\ rlof THEN ZAMSRadii ELSE {r}

\* whether a star rotates fast enough to be chemically homogeneous (read only with CHE)
RotationOutcomes(o) == IF o.CHE_Option = "NONE" THEN {FALSE} ELSE BOOLEAN

NoCtor ==
    [kind |-> "none", attempts |-> 0, mass1 |-> Zero, mass2 |-> Zero, massRatio |-> Zero,
     a |-> Zero, e |-> Zero, r1 |-> Zero, r2 |-> Zero,
     rlof |-> FALSE, merger |-> FALSE, small |-> FALSE, outside |-> FALSE]

\* what CalculateMassTransfer is given by the stars when no star is asked
NoMassTransferInputs == [massRatioUnstable |-> FALSE, zetaStar |-> Zero, fractionAccreted |-> One]

NoEvolve ==
    [status |-> "CONTINUE", stepNum |-> 0, iterations |-> 0, coalescences |-> 0,
     dt |-> Zero, totalMassRecorded |-> Zero,
     ext |-> NoMassTransferInputs]

InitBirth ==
    /\ opt \in BirthOptions
    /\ pc = "start"
    /\ ctor = NoCtor
    /\ star1 = NoStar
    /\ star2 = NoStar
    /\ bin = BlankBinary
    /\ ev = NoEvolve

\* BaseBinaryStar(p_AIS, p_Id): one pass of the do ... while loop.  A rejected sample
\* leaves the program in the loop; an accepted one completes the construction.
SampleBinary ==
    /\ pc \in {"start", "sampling"}
    /\ ctor.kind \in {"none", "sampled"}
    /\ ctor.attempts <= MaxAttempts
    /\ \E mass1 \in MassSamples, massRatio \in QSamples, a \in SemiMajorAxisSamples,
          e \in EccentricitySamples, r1 \in ZAMSRadii, r2 \in ZAMSRadii :
       \E mass2 \in {RMul(massRatio, mass1)} :
       \E rlof \in {RlofAtBirth(r1, r2, a, e, mass1, mass2)} :
       \E r1e \in RemadeRadii(opt, rlof, r1), r2e \in RemadeRadii(opt, rlof, r2),
          ch1 \in RotationOutcomes(opt), ch2 \in RotationOutcomes(opt) :
       \E c \in {BirthConfiguration(opt, rlof, mass1, mass2, a, e, r1, r2, r1e, r2e)} :
       \E merger \in {TouchingAtBirth(c.a, c.s1.radius, c.s2.radius)},
          small \in {SecondaryTooSmall(opt, c.mass2)},
          outside \in {OutsideParameterSpace(opt, c.mass1, massRatio, c.a)},
          b0 \in {[SetInitialCommonValues(bin) EXCEPT
                      !.a = c.a, !.e = c.e, !.massesEquilibrated = FALSE,
                      !.massesEquilibratedAtBirth = c.equilibrated]},
          t1 \in {[c.s1 EXCEPT !.type = BirthType(opt, c.s1, ch1)]},
          t2 \in {[c.s2 EXCEPT !.type = BirthType(opt, c.s2, ch2)]} :
         /\ ctor' = [kind |-> "sampled", attempts |-> ctor.attempts + 1,
                     mass1 |-> mass1, mass2 |-> mass2, massRatio |-> massRatio,
                     a |-> a, e |-> e, r1 |-> r1, r2 |-> r2,
                     rlof |-> c.rlof, merger |-> merger, small |-> small,
                     outside |-> outside]
         /\ IF SampleRejected(opt, c.rlof, merger, small, outside)
            THEN /\ pc' = "sampling"
                 /\ star1' = c.s1
                 /\ star2' = c.s2
                 /\ bin' = b0
            ELSE /\ pc' = "constructed"
                 /\ star1' = t1
                 /\ star2' = t2
                 /\ bin' = SetRemainingCommonValues(opt, b0, t1, t2)
    /\ UNCHANGED <<opt, ev>>

\* BaseBinaryStar(p_AIS, p_Mass1, p_Mass2, ..., p_SemiMajorAxis, p_Eccentricity, ...):
\* the same body, run once on the parameters given, with no loop around it.
ExplicitBinary ==
    /\ pc = "start"
    /\ \E mass1 \in MassSamples, massRatio \in QSamples, a \in SemiMajorAxisSamples,
          e \in EccentricitySamples, r1 \in ZAMSRadii, r2 \in ZAMSRadii :
       \E mass2 \in {RMul(massRatio, mass1)} :
       \E rlof \in {RlofAtBirth(r1, r2, a, e, mass1, mass2)} :
       \E r1e \in RemadeRadii(opt, rlof, r1), r2e \in RemadeRadii(opt, rlof, r2),
          ch1 \in RotationOutcomes(opt), ch2 \in RotationOutcomes(opt) :
       \E c \in {BirthConfiguration(opt, rlof, mass1, mass2, a, e, r1, r2, r1e, r2e)} :
       \E b0 \in {[SetInitialCommonValues(bin) EXCEPT
                      !.a = c.a, !.e = c.e, !.massesEquilibrated = FALSE,
                      !.massesEquilibratedAtBirth = c.equilibrated]},
          t1 \in {[c.s1 EXCEPT !.type = BirthType(opt, c.s1, ch1)]},
          t2 \in {[c.s2 EXCEPT !.type = BirthType(opt, c.s2, ch2)]} :
         /\ ctor' = [kind |-> "explicit", attempts |-> 1,
                     mass1 |-> mass1, mass2 |-> mass2, massRatio |-> massRatio,
                     a |-> a, e |-> e, r1 |-> r1, r2 |-> r2,
                     rlof |-> c.rlof, merger |-> FALSE, small |-> FALSE,
                     outside |-> FALSE]
         /\ pc' = "constructed"
         /\ star1' = t1
         /\ star2' = t2
         /\ bin' = SetRemainingCommonValues(opt, b0, t1, t2)
    /\ UNCHANGED <<opt, ev>>

NextBirth == SampleBinary \/ ExplicitBinary

SpecBirth == InitBirth /\ [][NextBirth]_vars

(***************************************************************************)
(* Properties of the constructors.                                         *)
(***************************************************************************)

\* the birth configuration, read off the constructed binary
BirthRlof == RlofAtBirth(star1.radius, star2.radius, bin.a, bin.e, star1.mass, star2.mass)
BirthTouching == TouchingAtBirth(bin.a, star1.radius, star2.radius)
BirthSecondaryTooSmall == Compare(star2.mass, opt.MinimumMassSecondary) < 0
BirthValid ==
    /\ ~opt.AllowRLOFAtBirth => ~BirthRlof
    /\ ~opt.AllowTouchingAtBirth => ~BirthTouching
    /\ ~BirthSecondaryTooSmall

\* whether the stars as first made (from what was sampled or given) overflow
GivenRlof == RlofAtBirth(ctor.r1, ctor.r2, ctor.a, ctor.e, ctor.mass1, ctor.mass2)
GivenMeanMass == RDiv(RAdd(ctor.mass1, ctor.mass2), Two)

\* C1: a binary the sampling constructor has accepted has no Roche-lobe overflow at
\* periastron unless AllowRLOFAtBirth, a separation not below the sum of the radii
\* unless AllowTouchingAtBirth, and a secondary not below MinimumMassSecondary; a
\* sample that violates one of these is never the one the loop exits with.
C1_AcceptedSampleIsValid ==
    (pc = "constructed" /\ ctor.kind = "sampled") => BirthValid

\* an accepted sample that followed a rejected one, under the strictest options
C1_Witness ==
    /\ pc = "constructed"
    /\ ctor.kind = "sampled"
    /\ ctor.attempts = 2
    /\ ~opt.AllowRLOFAtBirth
    /\ ~opt.AllowTouchingAtBirth
    /\ opt.MinimumMassSecondary = Q(3, 2)

\* C2: in both constructors, with AllowRLOFAtBirth and a star overflowing at birth the
\* two masses are both the mean of the original masses, the eccentricity is 0 and
\* massesEquilibratedAtBirth is set; with no star overflowing, masses, separation and
\* eccentricity are as sampled or given and massesEquilibratedAtBirth is not set.
C2_EquilibrationAtBirth ==
    pc = "constructed" =>
        /\ (opt.AllowRLOFAtBirth /\ GivenRlof) =>
              /\ star1.mass = GivenMeanMass
              /\ star2.mass = GivenMeanMass
              /\ bin.e = Zero
              /\ bin.massesEquilibratedAtBirth
        /\ ~GivenRlof =>
              /\ star1.mass = ctor.mass1
              /\ star2.mass = ctor.mass2
              /\ bin.a = ctor.a
              /\ bin.e = ctor.e
              /\ ~bin.massesEquilibratedAtBirth

\* an eccentric binary of unequal masses, given explicitly, was equilibrated
C2_Witness ==
    /\ pc = "constructed"
    /\ ctor.kind = "explicit"
    /\ opt.AllowRLOFAtBirth
    /\ GivenRlof
    /\ ctor.mass1 # ctor.mass2
    /\ ctor.e # Zero
    /\ bin.massesEquilibratedAtBirth

\* C3 (as the claim states it): after equilibration at birth the semi-major axis is
\* a0 * 16*m1*m2/(m1+m2)^4 * (1 - e0^2) for the masses, eccentricity and separation
\* before equilibration; the product m1*m2 is read either as written or squared, as
\* conservation of angular momentum has it.
C3_AxisFromOriginalMasses ==
    (pc = "constructed" /\ bin.massesEquilibratedAtBirth) =>
        LET M == RAdd(ctor.mass1, ctor.mass2)
            M4 == RMul(RMul(M, M), RMul(M, M))
            m1m2 == RMul(ctor.mass1, ctor.mass2)
            ecc == RSub(One, RMul(ctor.e, ctor.e))
        IN  \/ bin.a = RMul(RMul(ctor.a, RDiv(RMul(Q(16, 1), m1m2), M4)), ecc)
            \/ bin.a = RMul(RMul(ctor.a, RDiv(RMul(RMul(Q(16, 1), m1m2), m1m2), M4)), ecc)

\* C4: a binary the sampling constructor made has passed the rejection loop; one the
\* explicit-parameter constructor made was built in a single pass, and unless it was
\* equilibrated it has exactly the masses, separation and eccentricity it was given,
\* whether or not they are a valid birth configuration.
C4_OnlySampledBinariesAreValidated ==
    pc = "constructed" =>
        /\ ctor.kind = "sampled" => BirthValid
        /\ ctor.kind = "explicit" =>
              /\ ctor.attempts = 1
              /\ ~bin.massesEquilibratedAtBirth =>
                    /\ star1.mass = ctor.mass1
                    /\ star2.mass = ctor.mass2
                    /\ bin.a = ctor.a
                    /\ bin.e = ctor.e

\* an explicitly given binary that overflows, touches and has too small a secondary,
\* constructed although none of these is allowed
C4_Witness ==
    /\ pc = "constructed"
    /\ ctor.kind = "explicit"
    /\ ~opt.AllowRLOFAtBirth
    /\ ~opt.AllowTouchingAtBirth
    /\ BirthRlof
    /\ BirthTouching
    /\ BirthSecondaryTooSmall

\* C4 as the claim states it: every constructed binary is a valid birth configuration
C4_EveryBinaryIsValidated == pc = "constructed" => BirthValid

(***************************************************************************)
(* Evolve(): the state it works on.                                        *)
(*                                                                         *)
(* A world w = [bin, star1, star2] is the binary with its two stars; the   *)
(* operations below take a world and return the world they leave.          *)
(***************************************************************************)
World(b, s1, s2) == [bin |-> b, star1 |-> s1, star2 |-> s2]

HasOneOf(w, types) == w.star1.type \in types \/ w.star2.type \in types
HasTwoOf(w, types) == w.star1.type \in types /\ w.star2.type \in types

\* a > 0 and a <= RSOL_TO_AU * (R1 + R2)
HasStarsTouching(w) ==
    /\ Compare(w.bin.a, Zero) > 0
    /\ \E radii \in {RAdd(w.star1.radius, w.star2.radius)} :
          \E reach \in {RMul(RSOL_TO_AU, radii)} : RLe(w.bin.a, reach)

\* the orbit is unbound: a <= 0 or e > 1
IsUnbound(w) == Compare(w.bin.a, Zero) <= 0 \/ Compare(w.bin.e, One) > 0

\* the m_Unbound flag
Unbound(w) == w.bin.unbound

StellarMerger(w) == w.bin.stellarMerger
IsDCO(w) == HasTwoOf(w, {"NEUTRON_STAR", "BLACK_HOLE"})
IsWDandWD(w) == HasTwoOf(w, {"HELIUM_WHITE_DWARF", "CARBON_OXYGEN_WHITE_DWARF"})
BothCH(o, w) == o.CHE_Option # "NONE" /\ HasTwoOf(w, {"CHEMICALLY_HOMOGENEOUS"})

(***************************************************************************)
(* The constituent stars in Evolve().  What a star does when it ages is    *)
(* its own business: the model lets at most one star change in a timestep  *)
(* (or both explode), to one of a few later stages.                        *)
(***************************************************************************)
GiantRadius == Q(8, 1)
RemnantMass == Q(3, 2)

\* the star at the start of a timestep: the previous mass is remembered
StartTimestep(s) == [s EXCEPT !.massPrev = s.mass]

Expanded(s) == [s EXCEPT !.radius = GiantRadius]
EvolvedTo(s, type) ==
    [s EXCEPT !.type = type, !.radius = GiantRadius, !.coreMass = RDiv(s.mass, Two)]
Exploded(s) ==
    [s EXCEPT !.type = "NEUTRON_STAR", !.mass = RemnantMass, !.coreMass = RemnantMass,
              !.radius = Zero, !.snEvent = TRUE]
Vanished(s) ==
    [s EXCEPT !.type = "MASSLESS_REMNANT", !.mass = Zero, !.coreMass = Zero, !.radius = Zero]

\* what AgeOneTimestep may turn a star into, other than leaving it as it is
AgeChanges(s) ==
    IF s.type \in MAIN_SEQUENCE \cup {"CHEMICALLY_HOMOGENEOUS"}
    THEN {Expanded(s), EvolvedTo(s, "HERTZSPRUNG_GAP"),
          EvolvedTo(s, "NAKED_HELIUM_STAR_HERTZSPRUNG_GAP"), Exploded(s)}
    ELSE IF s.type \in {"HERTZSPRUNG_GAP", "NAKED_HELIUM_STAR_MS"}
    THEN {EvolvedTo(s, "NAKED_HELIUM_STAR_HERTZSPRUNG_GAP"), Exploded(s)}
    ELSE IF s.type = "NAKED_HELIUM_STAR_HERTZSPRUNG_GAP"
    THEN {Exploded(s)}
    ELSE IF s.type = "NEUTRON_STAR"
    THEN {Vanished(s)}
    ELSE {}

\* both stars may also change in the same timestep: both expand, or both explode
BothChange(s1, s2) ==
    IF {s1.type, s2.type} \subseteq MAIN_SEQUENCE \cup {"CHEMICALLY_HOMOGENEOUS"}
    THEN {<<Expanded(s1), Expanded(s2)>>, <<Exploded(s1), Exploded(s2)>>}
    ELSE {}

AgedPairs(s1, s2) ==
    {<<s1, s2>>}
    \cup {<<x, s2>> : x \in AgeChanges(s1)}
    \cup {<<s1, y>> : y \in AgeChanges(s2)}
    \cup BothChange(s1, s2)

\* m_Star1->AgeOneTimestep, m_Star2->AgeOneTimestep
AgeOutcomes(s1, s2) == AgedPairs(StartTimestep(s1), StartTimestep(s2))

\* the timesteps the stars ask for (CalculateTimestep), in Myr
TimestepSamples == {One}

(***************************************************************************)
(* The binaries Evolve() is run on, made by the explicit constructor, and  *)
(* the options they are evolved under.                                     *)
(***************************************************************************)
\* <<mass1, mass2, a (Rsol), e>>, ZAMS radii 1 Rsol
EqualCircular == <<Q(8, 1), Q(8, 1), Q(20, 1), Zero>>
EqualEccentric == <<Q(8, 1), Q(8, 1), Q(20, 1), Half>>
UnequalCircular == <<Q(8, 1), Q(2, 1), Q(20, 1), Zero>>
UnequalEccentric == <<Q(8, 1), Q(2, 1), Q(20, 1), Half>>
CloseCircular == <<Q(8, 1), Q(8, 1), Q(12, 1), Zero>>
TightCircular == <<Q(8, 1), Q(8, 1), Q(3, 1), Zero>>
TouchingCircular == <<Q(8, 1), Q(8, 1), Q(1, 1), Zero>>

\* <<options, binary>>
EvolveScenarios ==
    {<<[DefaultOptions EXCEPT !.MaxNumberOfTimestepIterations = n], EqualCircular>> :
        n \in 0 .. MaxStepsOption}
    \cup
    {<<DefaultOptions, b>> :
        b \in {EqualEccentric, UnequalCircular, CloseCircular, TightCircular,
               TouchingCircular}}
    \cup
    {<<[DefaultOptions EXCEPT !.MassTransferAngularMomentumLossPrescription = p], UnequalCircular>> :
        p \in {"JEANS", "CIRCUMBINARY_RING", "ARBITRARY"}}
    \cup
    {<<[DefaultOptions EXCEPT !.MassTransferAngularMomentumLossPrescription = "UNKNOWN",
                        !.MaxNumberOfTimestepIterations = n], EqualCircular>> :
        n \in {1, MaxStepsOption}}
    \cup
    {<<[DefaultOptions EXCEPT !.CaseBBStabilityPrescription = c], EqualCircular>> :
        c \in {"ALWAYS_STABLE_ONTO_NSBH", "TREAT_AS_OTHER_MT", "ALWAYS_UNSTABLE"}}
    \cup
    {<<[DefaultOptions EXCEPT !.MassTransferCriticalMassRatio = {"HG"},
                        !.AllowMainSequenceStarToSurviveCommonEnvelope = m], EqualCircular>> :
        m \in BOOLEAN}
    \cup
    {<<[DefaultOptions EXCEPT !.CHE_Option = "OPTIMISTIC"], b>> :
        b \in {EqualEccentric, UnequalEccentric}}
    \cup
    {<<[DefaultOptions EXCEPT !.EvolveUnboundSystems = TRUE,
                        !.CirculariseBinaryDuringMassTransfer = c[1],
                        !.AngularMomentumConservationDuringCircularisation = c[2]],
       EqualEccentric>> :
        c \in {<<FALSE, FALSE>>, <<TRUE, FALSE>>, <<TRUE, TRUE>>}}
    \cup
    {<<[DefaultOptions EXCEPT !.RLOFPrinting = TRUE, !.BeBinaries = TRUE], CloseCircular>>,
     <<[DefaultOptions EXCEPT !.RLOFPrinting = TRUE], UnequalCircular>>,
     <<[DefaultOptions EXCEPT !.BeBinaries = TRUE], EqualCircular>>}
    \cup
    {<<[DefaultOptions EXCEPT !.UseMassLoss = TRUE], EqualCircular>>,
     <<[DefaultOptions EXCEPT !.UseMassLoss = TRUE, !.UseMassTransfer = FALSE,
                        !.EvolveUnboundSystems = TRUE],
       EqualCircular>>,
     <<[DefaultOptions EXCEPT !.UseMassTransfer = FALSE], EqualCircular>>,
     <<[DefaultOptions EXCEPT !.MaxEvolutionTime = Q(1, 2000)], EqualCircular>>}

\* what the explicit constructor leaves, for a binary that is not equilibrated at birth
ConstructedWorld(o, mass1, mass2, a, e, ch1, ch2) ==
    World(SetRemainingCommonValues(o,
              [SetInitialCommonValues(BlankBinary) EXCEPT !.a = a, !.e = e],
              NewStar(mass1, One), NewStar(mass2, One)),
          [NewStar(mass1, One) EXCEPT !.type = BirthType(o, NewStar(mass1, One), ch1)],
          [NewStar(mass2, One) EXCEPT !.type = BirthType(o, NewStar(mass2, One), ch2)])

InitEvolve ==
    /\ pc = "constructed"
    /\ \E sc \in EvolveScenarios, ch \in BOOLEAN :
       \E o \in {sc[1]}, b \in {sc[2]} :
       \E w \in {ConstructedWorld(o, b[1], b[2], RMul(b[3], RSOL_TO_AU), b[4], ch, ch)} :
         /\ ch \in RotationOutcomes(o)
         /\ opt = o
         /\ ctor = [NoCtor EXCEPT !.kind = "explicit", !.attempts = 1, !.mass1 = b[1],
                                  !.mass2 = b[2], !.massRatio = RDiv(b[2], b[1]),
                                  !.a = w.bin.a, !.e = b[4], !.r1 = One, !.r2 = One]
         /\ star1 = w.star1
         /\ star2 = w.star2
         /\ bin = w.bin
    /\ ev = NoEvolve

Now == World(bin, star1, star2)

\* Evolve(), up to the timestep loop: a binary whose stars touch has merged at birth
EvolveBegin ==
    /\ pc = "constructed"
    /\ IF HasStarsTouching(Now)
       THEN /\ bin' = [bin EXCEPT !.stellarMerger = TRUE, !.stellarMergerAtBirth = TRUE]
            /\ ev' = [ev EXCEPT !.status = "STELLAR_MERGER_AT_BIRTH",
                                 !.totalMassRecorded = bin.totalMass]
            /\ pc' = "done"
       ELSE /\ \E dt \in TimestepSamples :
                 ev' = [ev EXCEPT !.status = "CONTINUE", !.stepNum = 1,
                                  !.dt = RDiv(dt, Q(1000, 1)),
                                  !.totalMassRecorded = bin.totalMass]
            /\ bin' = bin
            /\ pc' = "loop"
    /\ UNCHANGED <<opt, ctor, star1, star2>>

\* EvolveOneTimestepPreamble
EvolveOneTimestepPreamble(b, dt) ==
    IF RLt(Zero, dt)
    THEN [b EXCEPT !.timePrev = b.time, !.time = RAdd(b.time, dt), !.dt = dt]
    ELSE b

\* the status Evolve() gives the binary after EvolveOneTimestep, before it evaluates it
StatusAfterTimestep(o, w) ==
    IF w.bin.error # "NONE" THEN "SSE_ERROR"
    ELSE IF HasOneOf(w, {"MASSLESS_REMNANT"}) THEN "MASSLESS_REMNANT"
    ELSE IF StellarMerger(w) THEN "STELLAR_MERGER"
    ELSE IF HasStarsTouching(w) THEN "STARS_TOUCHING"
    ELSE IF IsUnbound(w) /\ ~o.EvolveUnboundSystems THEN "UNBOUND"
    ELSE "CONTINUE"

\* a step budget that is tested one step late
EndOfIterationLateBudget(o, e, status, dt) ==
    IF e.stepNum > o.MaxNumberOfTimestepIterations
    THEN [e EXCEPT !.status = "STEPS_UP"]
    ELSE IF status = "CONTINUE"
    THEN [e EXCEPT !.status = status, !.dt = dt, !.stepNum = e.stepNum + 1]
    ELSE [e EXCEPT !.status = status]

\* the end of the loop's body: the step budget, then the next timestep
EndOfIteration(o, e, status, dt) ==
    IF e.stepNum >= o.MaxNumberOfTimestepIterations
    THEN [e EXCEPT !.status = "STEPS_UP"]
    ELSE IF status = "CONTINUE"
    THEN [e EXCEPT !.status = status, !.dt = dt, !.stepNum = e.stepNum + 1]
    ELSE [e EXCEPT !.status = status]

\* the timesteps the loop may go on with
NextTimesteps(o, e, status) ==
    IF status = "CONTINUE" /\ e.stepNum < o.MaxNumberOfTimestepIterations
    THEN TimestepSamples
    ELSE {e.dt}

\* One pass of the loop, first half: EvolveOneTimestep and the checks after it.  A binary
\* that is not evaluated has reached the end of the loop's body.
Timestep ==
    /\ pc = "loop"
    /\ \E aged \in AgeOutcomes(star1, star2) :
       \E w \in {World(EvolveOneTimestepPreamble(bin, ev.dt), aged[1], aged[2])} :
       \E status \in {StatusAfterTimestep(opt, w)} :
         /\ star1' = w.star1
         /\ star2' = w.star2
         /\ bin' = IF status = "UNBOUND" THEN [w.bin EXCEPT !.unbound = TRUE] ELSE w.bin
         /\ IF status = "CONTINUE"
            THEN /\ ev' = [ev EXCEPT !.iterations = ev.iterations + 1]
                 /\ pc' = "EvaluateBinary"
            ELSE /\ ev' = EndOfIteration(opt, [ev EXCEPT !.iterations = ev.iterations + 1],
                                         status, ev.dt)
                 /\ pc' = "done"
    /\ UNCHANGED <<opt, ctor>>

(***************************************************************************)
(* InitialiseMassTransfer.                                                 *)
(***************************************************************************)
\* BinaryConstituentStar::InitialiseMassTransfer: the star overflows when its
\* Roche-lobe tracker is at least 1; no mass transferred yet
StarInitialiseMassTransfer(s, companion, a, e) ==
    [s EXCEPT !.isRLOF = Compare(RocheLobeTracker(s.radius, a, e, s.mass, companion.mass),
                                 One) >= 0,
              !.mtDiff = Zero]

\* m_Star1->InitialiseMassTransfer, m_Star2->InitialiseMassTransfer
InitialiseStars(w) ==
    [w EXCEPT !.star1 = StarInitialiseMassTransfer(w.star1, w.star2, w.bin.a, w.bin.e),
              !.star2 = StarInitialiseMassTransfer(w.star2, w.star1, w.bin.a, w.bin.e)]

\* both CH: "share mass equally" unless the masses are equal already
ShareMassEqually(w, mass) ==
    IF Compare(w.star1.mass, w.star2.mass) # 0
    THEN [w EXCEPT !.star1.mass = mass, !.star2.mass = mass, !.bin.massesEquilibrated = TRUE]
    ELSE w

\* both CH: "circularise if not already", conserving angular momentum
CirculariseCH(w) ==
    IF Compare(w.bin.e, Zero) # 0
    THEN [w EXCEPT !.bin.a = RMul(w.bin.a,
                                  CircularisationFactor(RAdd(w.star1.mass, w.star2.mass),
                                                        RMul(w.star1.mass, w.star2.mass),
                                                        w.bin.e)),
                   !.bin.e = Zero]
    ELSE w

NoMassTransfer(w) == [w EXCEPT !.bin.massTransfer = FALSE, !.bin.CEEnow = FALSE]

\* not both CH: circularise to the periapsis, and take the circular orbit as the previous one
CirculariseAtPeriapsis(o, w) ==
    [w EXCEPT !.bin.a = RMul(w.bin.a,
                             IF o.AngularMomentumConservationDuringCircularisation
                             THEN RSub(One, RMul(w.bin.e, w.bin.e))
                             ELSE RSub(One, w.bin.e)),
              !.bin.e = Zero]

\* a circularisation that leaves the previous values alone
TakeNothingAsPrevious(w) == w

\* "Previous values have to be the ones for periastron"
TakeAsPrevious(w) == [w EXCEPT !.bin.aPrev = w.bin.a, !.bin.ePrev = w.bin.e]

\* the branches of InitialiseMassTransfer, for stars that were initialised
InitialiseMassTransferFlags(o, w) ==
    IF w.star1.isRLOF \/ w.star2.isRLOF
    THEN IF BothCH(o, w)
         THEN NoMassTransfer(InitialiseStars(CirculariseCH(
                  ShareMassEqually(w, RDiv(RAdd(w.star1.mass, w.star2.mass), Two)))))
         ELSE IF o.CirculariseBinaryDuringMassTransfer
         THEN TakeAsPrevious(InitialiseStars(CirculariseAtPeriapsis(o,
                  [w EXCEPT !.bin.massTransfer = TRUE, !.bin.CEEnow = FALSE])))
         ELSE [w EXCEPT !.bin.massTransfer = TRUE, !.bin.CEEnow = FALSE]
    ELSE NoMassTransfer(w)

ClearMassTransferDiff(w) == [w EXCEPT !.bin.aMassTransferDiff = Zero]

InitialiseMassTransfer(o, w) ==
    ClearMassTransferDiff(InitialiseMassTransferFlags(o,
        InitialiseStars([w EXCEPT !.bin.tracker = "NO_MASS_TRANSFER"])))

(***************************************************************************)
(* CalculateMassTransfer and what it calls.                                *)
(***************************************************************************)
StarOf(w, i) == IF i = 1 THEN w.star1 ELSE w.star2
WithStar(w, i, s) == IF i = 1 THEN [w EXCEPT !.star1 = s] ELSE [w EXCEPT !.star2 = s]

M_SQRT2 == Q(7, 5)
KnownPrescriptions == {"JEANS", "ISOTROPIC_RE_EMISSION", "CIRCUMBINARY_RING", "ARBITRARY"}

\* CalculateGammaAngularMomentumLoss: the value returned
CalculateGammaAngularMomentumLoss(o, donorMass, accretorMass) ==
    CASE o.MassTransferAngularMomentumLossPrescription = "JEANS" ->
             RDiv(accretorMass, donorMass)
      [] o.MassTransferAngularMomentumLossPrescription = "ISOTROPIC_RE_EMISSION" ->
             RDiv(donorMass, accretorMass)
      [] o.MassTransferAngularMomentumLossPrescription = "CIRCUMBINARY_RING" ->
             RDiv(RMul(M_SQRT2, RMul(RAdd(donorMass, accretorMass),
                                     RAdd(donorMass, accretorMass))),
                  RMul(donorMass, accretorMass))
      [] o.MassTransferAngularMomentumLossPrescription = "ARBITRARY" ->
             o.MassTransferJloss
      [] OTHER -> One

\* a default case that only warns
GammaOnlyWarns(o, w) == w

\* CalculateGammaAngularMomentumLoss: the default case sets m_Error
GammaSetsError(o, w) ==
    IF o.MassTransferAngularMomentumLossPrescription \in KnownPrescriptions
    THEN w
    ELSE [w EXCEPT !.bin.error = "UNKNOWN_MT_ANGULAR_MOMENTUM_LOSS_PRESCRIPTION"]

\* the largest fraction of the donor's mass moved in one step of the orbit's integration
\* (scaled up, to keep the number of steps small)
MAXIMUM_MASS_TRANSFER_FRACTION_PER_STEP == Q(1, 4)

\* fmax(floor(fabs(p_DeltaMassDonor / (MAXIMUM_MASS_TRANSFER_FRACTION_PER_STEP * massD))), 1)
NumberIterations(deltaMassDonor, massD) ==
    Max(RFloor(RAbs(RDiv(deltaMassDonor, RMul(MAXIMUM_MASS_TRANSFER_FRACTION_PER_STEP, massD)))),
        1)

\* one pass of the loop of CalculateMassTransferOrbit: the new semi-major axis
OrbitStep(semiMajorAxis, massD, massA, dM, fa, jLoss) ==
    RAdd(semiMajorAxis,
         RMul(RMul(RDiv(RMul(Q(-2, 1), dM), massD),
                   RSub(RSub(One, RMul(fa, RDiv(massD, massA))),
                        RMul(RMul(RSub(One, fa), RAdd(jLoss, Half)),
                             RDiv(massD, RAdd(massA, massD))))),
              semiMajorAxis))

RECURSIVE OrbitSteps(_, _, _, _, _, _, _)
OrbitSteps(o, i, semiMajorAxis, massD, massA, dM, fa) ==
    IF i = 0
    THEN semiMajorAxis
    ELSE OrbitSteps(o, i - 1,
                    OrbitStep(semiMajorAxis, massD, massA, dM, fa,
                              CalculateGammaAngularMomentumLoss(o, massD, massA)),
                    RAdd(massD, dM), RSub(massA, RMul(dM, fa)), dM, fa)

OrbitAfter(o, n, semiMajorAxis, donorMass, deltaMassDonor, accretorMass, fa) ==
    OrbitSteps(o, n, semiMajorAxis, donorMass, accretorMass, RDiv(deltaMassDonor, Q(n, 1)), fa)

\* CalculateMassTransferOrbit: the semi-major axis after the donor's mass changed
CalculateMassTransferOrbit(o, semiMajorAxis, donorMass, deltaMassDonor, accretorMass, fa) ==
    OrbitAfter(o, NumberIterations(deltaMassDonor, donorMass),
               semiMajorAxis, donorMass, deltaMassDonor, accretorMass, fa)

\* k2 of CalculateZRocheLobe, tabulated as the Roche-lobe radius is
\* (0.271, 0.252, 0.228, 0.202, 0.174 at q = 1/4, 1/2, 1, 2, 4)
ZRocheLobeTable(n, d) ==
    IF 8 * n < 3 * d THEN Q(3, 11)
    ELSE IF 4 * n < 3 * d THEN Q(1, 4)
    ELSE IF 2 * n < 3 * d THEN Q(2, 9)
    ELSE IF n < 3 * d THEN Q(1, 5)
    ELSE Q(1, 6)

ZRocheLobeOf(q, beta, gamma) ==
    RAdd(RMul(Q(-2, 1),
              RSub(RSub(One, RMul(beta, q)),
                   RMul(RMul(RSub(One, beta), RAdd(gamma, Half)), RDiv(q, RAdd(One, q))))),
         RMul(ZRocheLobeTable(q[1], q[2]), RAdd(One, RMul(beta, q))))

\* CalculateZRocheLobe: k1 + k2 * k3
CalculateZRocheLobe(donorMass, accretorMass, beta, jLoss) ==
    ZRocheLobeOf(RDiv(donorMass, accretorMass), beta, jLoss)

\* a stability test that knows no exception for stripped-helium donors
IsStableByZetaAlone(o, donorType, accretorType, zetaStar, zetaLobe) ==
    Compare(zetaStar, zetaLobe) > 0

\* the condition under which the transfer is stable
IsStableMassTransfer(o, donorType, accretorType, zetaStar, zetaLobe) ==
    \/ /\ Compare(zetaStar, zetaLobe) > 0
       /\ ~(o.CaseBBStabilityPrescription = "ALWAYS_UNSTABLE" /\ donorType \in STRIPPED_HELIUM)
    \/ /\ donorType \in STRIPPED_HELIUM
       /\ \/ o.CaseBBStabilityPrescription = "ALWAYS_STABLE"
          \/ /\ o.CaseBBStabilityPrescription = "ALWAYS_STABLE_ONTO_NSBH"
             /\ accretorType \in {"NEUTRON_STAR", "BLACK_HOLE"}

\* the type a star has once it lost its envelope
StrippedType(type) ==
    CASE type = "HERTZSPRUNG_GAP" -> "NAKED_HELIUM_STAR_MS"
      [] type = "NAKED_HELIUM_STAR_HERTZSPRUNG_GAP" -> "CARBON_OXYGEN_WHITE_DWARF"
      [] OTHER -> type

\* BinaryConstituentStar::ResolveEnvelopeLossAndSwitch: the core is what is left
ResolveEnvelopeLossAndSwitch(s) ==
    [s EXCEPT !.mass = s.coreMass, !.type = StrippedType(s.type),
              !.radius = IF StrippedType(s.type) \in COMPACT_OBJECTS THEN Zero ELSE One]

\* MassLossToFitInsideRocheLobe: the mass the donor sheds to fit inside its Roche lobe
MassLossToFitInsideRocheLobe(donor) == RDiv(donor.mass, Q(4, 1))

\* the donor is told it is the primary before its direction is recorded
StableTracker(donorIsPrimary) ==
    IF donorIsPrimary THEN "STABLE_FROM_1_TO_2" ELSE "STABLE_FROM_2_TO_1"

\* stable mass transfer has changed the orbit to aFinal
RecordStableTransfer(w, aFinal) ==
    [w EXCEPT !.bin.aMassTransferDiff = RSub(aFinal, w.bin.a),
              !.bin.stableRLOFPostCEE =
                  IF w.bin.CEEcount > 0 /\ ~w.bin.stableRLOFPostCEE
                  THEN w.bin.tracker \in {"STABLE_FROM_2_TO_1", "STABLE_FROM_1_TO_2"}
                  ELSE w.bin.stableRLOFPostCEE]

\* "donor has a core and an envelope": the envelope is stripped
StripEnvelope(o, w, d, a, envMassDonor, fa) ==
    RecordStableTransfer(
        GammaSetsError(o,
            WithStar(WithStar([w EXCEPT !.bin.printExtra =
                                   w.bin.printExtra
                                   \/ StrippedType(StarOf(w, d).type) # StarOf(w, d).type],
                              d, ResolveEnvelopeLossAndSwitch(
                                     [StarOf(w, d) EXCEPT !.mtDiff = RNeg(envMassDonor)])),
                     a, [StarOf(w, a) EXCEPT !.mtDiff = RMul(envMassDonor, fa)])),
        CalculateMassTransferOrbit(o, w.bin.a, StarOf(w, d).mass, RNeg(envMassDonor),
                                   StarOf(w, a).mass, fa))

\* "donor has no envelope": it sheds dM to fit inside its Roche lobe
ShedToFit(o, w, d, a, dM, fa) ==
    RecordStableTransfer(
        GammaSetsError(o,
            WithStar(WithStar(w, d, [StarOf(w, d) EXCEPT !.mtDiff = dM]),
                     a, [StarOf(w, a) EXCEPT !.mtDiff = RMul(RNeg(dM), fa)])),
        CalculateMassTransferOrbit(o, w.bin.a, StarOf(w, d).mass, dM, StarOf(w, a).mass, fa))

\* the "Stable MT" branch
StableMassTransfer(o, w, d, a, fa) ==
    IF /\ Compare(StarOf(w, d).coreMass, Zero) > 0
       /\ Compare(RSub(StarOf(w, d).mass, StarOf(w, d).coreMass), Zero) > 0
    THEN StripEnvelope(o, [w EXCEPT !.bin.tracker = StableTracker(TRUE)], d, a,
                       RSub(StarOf(w, d).mass, StarOf(w, d).coreMass), fa)
    ELSE ShedToFit(o, [w EXCEPT !.bin.tracker = StableTracker(TRUE)], d, a,
                   RNeg(MassLossToFitInsideRocheLobe(StarOf(w, d))), fa)

\* an unstable transfer that always ends in a common envelope
UnstableAlwaysCommonEnvelope(w, d) ==
    [w EXCEPT !.bin.CEEnow = TRUE]

\* the "Unstable Mass Transfer" branch
UnstableMassTransfer(w, d) ==
    IF StarOf(w, d).type \in MAIN_SEQUENCE
    THEN [w EXCEPT !.bin.stellarMerger = TRUE]
    ELSE [w EXCEPT !.bin.CEEnow = TRUE]

\* the zeta comparison, with the zetas recorded in w
ResolveByZeta(o, w, d, a) ==
    IF IsStableMassTransfer(o, StarOf(w, d).type, StarOf(w, a).type,
                            w.bin.zetaStar, w.bin.zetaLobe)
    THEN StableMassTransfer(o, w, d, a, w.bin.fractionAccreted)
    ELSE UnstableMassTransfer(w, d)

\* jLoss is m_JLoss under the ARBITRARY prescription, gamma under any other
ZetaLobeFor(o, w, d, a, fa) ==
    CalculateZRocheLobe(StarOf(w, d).mass, StarOf(w, a).mass, fa,
        IF o.MassTransferAngularMomentumLossPrescription # "ARBITRARY"
        THEN CalculateGammaAngularMomentumLoss(o, StarOf(w, d).mass, StarOf(w, a).mass)
        ELSE w.bin.jLoss)

\* the else branch of the critical-mass-ratio test
TransferMass(o, w, d, a, ext) ==
    ResolveByZeta(o,
        [(IF o.MassTransferAngularMomentumLossPrescription # "ARBITRARY"
          THEN GammaSetsError(o, w) ELSE w)
         EXCEPT !.bin.fractionAccreted = ext.fractionAccreted,
                !.bin.zetaLobe = ZetaLobeFor(o, w, d, a, ext.fractionAccreted),
                !.bin.zetaStar = ext.zetaStar],
        d, a)

qCritFlag(o) == o.MassTransferCriticalMassRatio # {}

\* a mass transfer that leaves m_Donor and m_Accretor as they were
MassTransferOfStaleDonor(o, w, d, a, ext) ==
    IF qCritFlag(o) /\ ext.massRatioUnstable
    THEN [w EXCEPT !.bin.CEEnow = TRUE]
    ELSE TransferMass(o, w, d, a, ext)

\* one, and only one, star is overflowing its Roche lobe: d is the donor, a the accretor
SingleDonorMassTransfer(o, w, d, a, ext) ==
    IF qCritFlag(o) /\ ext.massRatioUnstable
    THEN [w EXCEPT !.bin.donor = d, !.bin.accretor = a, !.bin.CEEnow = TRUE]
    ELSE TransferMass(o, [w EXCEPT !.bin.donor = d, !.bin.accretor = a], d, a, ext)

\* a mass transfer that takes star 2 for the donor when both stars overflow
MassTransferWithoutBothOverflowing(o, w, ext) ==
    IF Unbound(w) THEN w
    ELSE IF ~o.UseMassTransfer THEN w
    ELSE IF ~w.star1.isRLOF /\ ~w.star2.isRLOF THEN w
    ELSE IF BothCH(o, w) /\ HasStarsTouching(w) THEN [w EXCEPT !.bin.stellarMerger = TRUE]
    ELSE IF w.star2.isRLOF THEN SingleDonorMassTransfer(o, w, 2, 1, ext)
    ELSE SingleDonorMassTransfer(o, w, 1, 2, ext)

\* CalculateMassTransfer after InitialiseMassTransfer
MassTransferAfterInitialise(o, w, ext) ==
    IF Unbound(w) THEN w
    ELSE IF ~o.UseMassTransfer THEN w
    ELSE IF ~w.star1.isRLOF /\ ~w.star2.isRLOF THEN w
    ELSE IF BothCH(o, w) /\ HasStarsTouching(w) THEN [w EXCEPT !.bin.stellarMerger = TRUE]
    ELSE IF w.star1.isRLOF /\ w.star2.isRLOF THEN [w EXCEPT !.bin.CEEnow = TRUE]
    ELSE IF w.star2.isRLOF THEN SingleDonorMassTransfer(o, w, 2, 1, ext)
    ELSE SingleDonorMassTransfer(o, w, 1, 2, ext)

CalculateMassTransfer(o, w, ext) ==
    MassTransferAfterInitialise(o, InitialiseMassTransfer(o, w), ext)

(***************************************************************************)
(* CalculateWindsMassLoss.                                                 *)
(***************************************************************************)
\* the fractions of its mass a star may lose to winds in a timestep
WindLossFractions == {Zero, Q(1, 8)}

\* BaseStar::CalculateMassLossValues: the mass after the winds
CalculateMassLossValues(s, loss) == RMul(s.mass, RSub(One, loss))

\* the orbit and the stars' mass-loss differences for the masses mWinds1, mWinds2
ApplyWinds(w, mWinds1, mWinds2) ==
    [w EXCEPT !.star1.mlDiff = RSub(mWinds1, w.star1.mass),
              !.star2.mlDiff = RSub(mWinds2, w.star2.mass),
              !.bin.aMassLossDiff =
                  RSub(RDiv(w.bin.aPrev,
                            RSub(Two, RDiv(RAdd(w.star1.massPrev, w.star2.massPrev),
                                           RAdd(mWinds1, mWinds2)))),
                       w.bin.aPrev)]

CalculateWindsMassLoss(o, w, loss) ==
    IF o.UseMassTransfer /\ w.bin.massTransfer
    THEN [w EXCEPT !.bin.aMassLossDiff = Zero, !.star1.mlDiff = Zero, !.star2.mlDiff = Zero]
    ELSE IF o.UseMassLoss
    THEN ApplyWinds([w EXCEPT !.bin.aMassLossDiff = Zero],
                    CalculateMassLossValues(w.star1, loss),
                    CalculateMassLossValues(w.star2, loss))
    ELSE [w EXCEPT !.bin.aMassLossDiff = Zero]

(***************************************************************************)
(* ResolveCommonEnvelopeEvent.                                             *)
(***************************************************************************)
SurvivesAsMainSequence(o, s) ==
    o.AllowMainSequenceStarToSurviveCommonEnvelope /\ s.type \in ALL_MAIN_SEQUENCE

\* a main-sequence star that survives whatever the option says
MassFinalOfSurvivor(o, s) == IF s.type \in ALL_MAIN_SEQUENCE THEN s.mass ELSE s.coreMass

\* m_Mass1Final, m_Mass2Final
MassFinal(o, s) == IF SurvivesAsMainSequence(o, s) THEN s.mass ELSE s.coreMass
\* m_MassEnv1, m_MassEnv2
MassEnv(o, s) == IF SurvivesAsMainSequence(o, s) THEN Zero ELSE RSub(s.mass, s.coreMass)

donorMS(o, w) ==
    \/ SurvivesAsMainSequence(o, w.star1) /\ w.star1.isRLOF
    \/ SurvivesAsMainSequence(o, w.star2) /\ w.star2.isRLOF

envelopeFlagOfEnvelopeAlone(o, s) == Compare(MassEnv(o, s), Zero) > 0

envelopeFlag(o, s) == Compare(MassEnv(o, s), Zero) > 0 /\ Compare(MassFinal(o, s), Zero) > 0

\* BinaryConstituentStar::LambdaAtCEE
LambdaAtCEE == One

\* k1, k2: the binding energy term of a star
EnvelopeBinding(o, s) ==
    IF s.type \in COMPACT_OBJECTS
    THEN Zero
    ELSE RDiv(RMul(RMul(RDiv(Two, RMul(LambdaAtCEE, o.CommonEnvelopeAlpha)), s.mass),
                   MassEnv(o, s)),
              s.radius)

PeriastronRsol(w) == RMul(RMul(w.bin.a, RSub(One, w.bin.e)), AU_TO_RSOL)

CommonEnvelopeAxisOfInitialMasses(o, w) ==
    RDiv(RMul(w.star1.mass, w.star2.mass),
         RAdd(RAdd(EnvelopeBinding(o, w.star1), EnvelopeBinding(o, w.star2)),
              RDiv(RMul(w.star1.mass, w.star2.mass), PeriastronRsol(w))))

\* aFinalRsol = k4 / (k1 + k2 + k3)
CommonEnvelopeAxisRsol(o, w) ==
    RDiv(RMul(MassFinal(o, w.star1), MassFinal(o, w.star2)),
         RAdd(RAdd(EnvelopeBinding(o, w.star1), EnvelopeBinding(o, w.star2)),
              RDiv(RMul(w.star1.mass, w.star2.mass), PeriastronRsol(w))))

\* the members set before the outcome is decided
CommonEnvelopeValues(o, w, aFinal) ==
    [w EXCEPT !.bin.mass1Final = MassFinal(o, w.star1),
              !.bin.mass2Final = MassFinal(o, w.star2),
              !.bin.massEnv1 = MassEnv(o, w.star1),
              !.bin.massEnv2 = MassEnv(o, w.star2),
              !.bin.doubleCoreCE = envelopeFlag(o, w.star1) /\ envelopeFlag(o, w.star2),
              !.bin.CEEcount = w.bin.CEEcount + 1,
              !.bin.simultaneousRLOF = w.star1.isRLOF /\ w.star2.isRLOF,
              !.bin.optimisticCE = w.bin.optimisticCE \/ HasOneOf(w, ALL_HERTZSPRUNG_GAP),
              !.bin.preCEE = [semiMajorAxis |-> RMul(w.bin.a, AU_TO_RSOL),
                              eccentricity |-> w.bin.e],
              !.bin.a = aFinal,
              !.bin.e = Zero]

CommonEnvelopeTracker(flag1, flag2) ==
    IF flag1 /\ flag2 THEN "CE_DOUBLE_CORE"
    ELSE IF flag2 THEN "CE_FROM_2_TO_1"
    ELSE "CE_FROM_1_TO_2"

\* "stellar merger", or the envelopes are lost; w is the binary when the event began
CommonEnvelopeOutcome(o, w, v, flag1, flag2) ==
    IF donorMS(o, w) \/ (~flag1 /\ ~flag2)
    THEN [v EXCEPT !.bin.tracker = IF HasTwoOf(w, {"NAKED_HELIUM_STAR_MS"})
                                   THEN "CE_BOTH_MS" ELSE "CE_MS_WITH_CO",
                   !.bin.stellarMerger = TRUE]
    ELSE [v EXCEPT !.star1 = IF flag1 THEN ResolveEnvelopeLossAndSwitch(w.star1) ELSE w.star1,
                   !.star2 = IF flag2 THEN ResolveEnvelopeLossAndSwitch(w.star2) ELSE w.star2,
                   !.bin.tracker = CommonEnvelopeTracker(flag1, flag2),
                   !.bin.printExtra =
                       \/ v.bin.printExtra
                       \/ flag1 /\ StrippedType(w.star1.type) # w.star1.type
                       \/ flag2 /\ StrippedType(w.star2.type) # w.star2.type]

\* an event without the test of the final separation
CommonEnvelopeWithoutTest(w) == w

\* aFinal <= 0, or the stars are wider than the orbit: merger
CommonEnvelopeMerger(w) ==
    IF \/ Compare(w.bin.a, Zero) <= 0
       \/ Compare(RAdd(w.star1.radius, w.star2.radius), RMul(w.bin.a, AU_TO_RSOL)) > 0
    THEN [w EXCEPT !.bin.stellarMerger = TRUE]
    ELSE w

\* SetPostCEEValues(aFinalRsol, m_Eccentricity, ...)
SetPostCEEValues(w, aFinalRsol) ==
    [w EXCEPT !.bin.postCEE = [semiMajorAxis |-> aFinalRsol, eccentricity |-> w.bin.e]]

\* the event, once aFinalRsol is known
CommonEnvelopeWith(o, w, aFinalRsol) ==
    SetPostCEEValues(
        CommonEnvelopeMerger(
            CommonEnvelopeOutcome(o, w,
                CommonEnvelopeValues(o, w, RMul(aFinalRsol, RSOL_TO_AU)),
                envelopeFlag(o, w.star1), envelopeFlag(o, w.star2))),
        aFinalRsol)

ResolveCommonEnvelopeEvent(o, w) == CommonEnvelopeWith(o, w, CommonEnvelopeAxisRsol(o, w))

(***************************************************************************)
(* EvaluateSupernovae and ResolveSupernova.  The natal kick is drawn at    *)
(* random: what it does to the orbit is one of KickOutcomes, the new       *)
(* eccentricity and the new semi-major axis as a multiple of the old one   *)
(* (a_ = h^2 / (G mb (1 - e_^2)) is negative exactly when e_ > 1).         *)
(***************************************************************************)
BoundKick ==
    [e |-> Half, aFactor |-> One, thetaE |-> 1, phiE |-> 3, psiE |-> 2,
     v |-> Q(30, 1), magnitude |-> Q(60, 1), natal |-> <<0, 0, 2>>,
     Vcm |-> <<1, 0, 0>>, V1inf |-> <<0, 0, 0>>, V2inf |-> <<0, 0, 0>>]
UnboundKick ==
    [e |-> Two, aFactor |-> Q(-1, 2), thetaE |-> 2, phiE |-> 1, psiE |-> 3,
     v |-> Q(30, 1), magnitude |-> Q(90, 1), natal |-> <<0, 3, 0>>,
     Vcm |-> <<0, 1, 0>>, V1inf |-> <<0, 4, 0>>, V2inf |-> <<0, 0, -2>>]
KickOutcomes == {BoundKick, UnboundKick}

ClearCurrentSNEvent(w, sn) == WithStar(w, sn, [StarOf(w, sn) EXCEPT !.snEvent = FALSE])

\* BinaryConstituentStar::UpdateComponentVelocity
UpdateComponentVelocity(w, i, v) ==
    WithStar(w, i, [StarOf(w, i) EXCEPT !.velocity = VAdd(StarOf(w, i).velocity, v)])

\* BinaryConstituentStar::CheckRunaway
CheckRunaway(w, i, unbound) ==
    WithStar(w, i, [StarOf(w, i) EXCEPT !.runaway = unbound])

UpdateSystemicVelocity(w, p_newVelocity) ==
    [w EXCEPT !.bin.systemicVelocity = VAdd(w.bin.systemicVelocity, p_newVelocity),
              !.bin.systemicSpeed = Magnitude(VAdd(w.bin.systemicVelocity, p_newVelocity))]

\* a vector in the frame the binary had before this supernova
Rotated(w, v) == RotateVector(v, w.bin.thetaE, w.bin.phiE, w.bin.psiE)

\* "Set Euler Angles"
EulerAngles(w, kick) ==
    [w EXCEPT !.bin.thetaE = kick.thetaE, !.bin.phiE = kick.phiE, !.bin.psiE = kick.psiE]

\* "Is system already unbound?": yes
SupernovaOfUnbound(w, sn, kick) ==
    [UpdateComponentVelocity(w, sn, Rotated(w, kick.natal))
     EXCEPT !.bin.orbitalVelocityPreSN = NaN, !.bin.uK = NaN]

\* "Binary has become unbound"
BecomesUnbound(w, sn, kick) ==
    EulerAngles(
        UpdateComponentVelocity(
            UpdateComponentVelocity([w EXCEPT !.bin.unbound = TRUE],
                                    sn, Rotated(w, kick.V1inf)),
            3 - sn, Rotated(w, kick.V2inf)),
        kick)

\* "Binary is still bound"
StaysBound(w, sn, kick) ==
    EulerAngles(
        UpdateComponentVelocity(UpdateComponentVelocity(w, sn, Rotated(w, kick.Vcm)),
                                3 - sn, Rotated(w, kick.Vcm)),
        kick)

BoundOrUnboundAboveOne(w, sn, kick) ==
    IF Compare(kick.e, One) > 0 THEN BecomesUnbound(w, sn, kick) ELSE StaysBound(w, sn, kick)

\* "Split off and evaluate depending on whether the binary is now bound or unbound"
BoundOrUnbound(w, sn, kick) ==
    IF Compare(kick.e, One) >= 0 THEN BecomesUnbound(w, sn, kick) ELSE StaysBound(w, sn, kick)

\* "Set other relevant post-SN parameters"
PostSNOrbit(w, sn, kick) ==
    [CheckRunaway(w, 3 - sn, w.bin.unbound)
     EXCEPT !.bin.e = kick.e, !.bin.a = RMul(kick.aFactor, w.bin.aPrev)]

\* "Is system already unbound?": no
SupernovaOfBound(w, sn, kick) ==
    PostSNOrbit(
        BoundOrUnbound(
            UpdateSystemicVelocity(
                [w EXCEPT !.bin.orbitalVelocityPreSN = kick.v,
                          !.bin.uK = RDiv(kick.magnitude, kick.v)],
                Rotated(w, kick.Vcm)),
            sn, kick),
        sn, kick)

SupernovaKeepingTheOrbit(w, sn, kick) == SupernovaOfBound(w, sn, kick)

\* the orbit of an unbound binary is left alone
SupernovaByOrbit(w, sn, kick) ==
    IF IsUnbound(w) THEN SupernovaOfUnbound(w, sn, kick) ELSE SupernovaOfBound(w, sn, kick)

\* ResolveSupernova for a star that is a supernova
SupernovaResolved(w, sn, kick) ==
    LET pre == [w EXCEPT !.bin.ePreSN = w.bin.ePrev, !.bin.aPreSN = w.bin.aPrev]
        post == SupernovaByOrbit(pre, sn, kick)
    IN  ClearCurrentSNEvent([post EXCEPT !.bin.iPrime = post.bin.thetaE], sn)

ResolveSupernovaUnasked(w, sn, kick) == SupernovaResolved(w, sn, kick)

\* ResolveSupernova for m_Supernova = star sn
ResolveSupernova(w, sn, kick) ==
    IF ~StarOf(w, sn).snEvent THEN w ELSE SupernovaResolved(w, sn, kick)

\* what ResolveSupernova returns
ResolveSupernovaReturns(w, sn) == StarOf(w, sn).snEvent

\* "Establish the SN State"
SupernovaState(w) ==
    IF w.star1.snEvent /\ w.star2.snEvent THEN "SIMUL"
    ELSE IF w.star1.snEvent
    THEN (IF w.bin.supernovaState = "NONE" THEN "STAR10" ELSE "STAR21")
    ELSE IF w.star2.snEvent
    THEN (IF w.bin.supernovaState = "NONE" THEN "STAR20" ELSE "STAR12")
    ELSE w.bin.supernovaState

\* "Resolve the SN(e)": star1, then star2
ResolveSecond(w, kick) ==
    IF w.star2.snEvent
    THEN ResolveSupernova([w EXCEPT !.bin.supernova = 2, !.bin.companion = 1], 2, kick)
    ELSE w

ResolveFirst(w, kick) ==
    IF w.star1.snEvent
    THEN ResolveSupernova([w EXCEPT !.bin.supernova = 1, !.bin.companion = 2], 1, kick)
    ELSE w

EvaluateSupernovae(w, p_Resolve2ndSN, kick) ==
    IF ~p_Resolve2ndSN /\ Unbound(w)
    THEN w
    ELSE ResolveSecond(ResolveFirst([w EXCEPT !.bin.supernovaState = SupernovaState(w)],
                                    kick),
                       kick)

(***************************************************************************)
(* ResolveMassChanges and CalculateEnergyAndAngularMomentum.               *)
(***************************************************************************)
\* BaseStar::UpdateAttributes(MassPrev() - Mass() + MassLossDiff() + MassTransferDiff(), 0.0)
UpdateMass(s) ==
    [s EXCEPT !.mass = RAdd(s.mass, RAdd(RSub(s.massPrev, s.mass), RAdd(s.mlDiff, s.mtDiff)))]

CalculateEnergyAndAngularMomentum(w) ==
    IF HasOneOf(w, {"MASSLESS_REMNANT"})
    THEN w
    ELSE [w EXCEPT !.bin.totalMassPrev = w.bin.totalMass,
                   !.bin.totalMass = RAdd(w.star1.mass, w.star2.mass)]

\* UpdateAttributes lets the star respond to its new mass: the star that collapses
\* (1, 2 or none) comes out of it as a supernova
UpdateAttributes(s, collapses) == IF collapses THEN Exploded(UpdateMass(s)) ELSE UpdateMass(s)

ResolveMassChanges(w, collapse) ==
    CalculateEnergyAndAngularMomentum(
        [w EXCEPT !.star1 = UpdateAttributes(w.star1, collapse = 1),
                  !.star2 = UpdateAttributes(w.star2, collapse = 2),
                  !.bin.a = RAdd(w.bin.aPrev, RAdd(w.bin.aMassLossDiff, w.bin.aMassTransferDiff))])

(***************************************************************************)
(* EvaluateBinary.                                                         *)
(***************************************************************************)
\* the stars have merged exactly if they touch after the mass changes
MergedOnlyWhileTouching(w) == [w EXCEPT !.bin.stellarMerger = HasStarsTouching(w)]

\* "apply mass loss and mass transfer as necessary"; touching stars have merged
MassChangesAndMerger(w) ==
    IF HasStarsTouching(w) THEN [w EXCEPT !.bin.stellarMerger = TRUE] ELSE w

\* the immediate event: a common envelope, a supernova, or the mass changes
\* an immediate event that evaluates the supernovae after the common envelope as well
CommonEnvelopeThenSupernovae(o, w, kick, collapse) ==
    IF (w.bin.CEEnow \/ StellarMerger(w)) /\ ~BothCH(o, w)
    THEN EvaluateSupernovae(ResolveCommonEnvelopeEvent(o, w), TRUE, kick)
    ELSE IF w.star1.snEvent \/ w.star2.snEvent
    THEN EvaluateSupernovae(w, TRUE, kick)
    ELSE MassChangesAndMerger(ResolveMassChanges(w, collapse))

ResolveImmediateEvent(o, w, kick, collapse) ==
    IF (w.bin.CEEnow \/ StellarMerger(w)) /\ ~BothCH(o, w)
    THEN ResolveCommonEnvelopeEvent(o, w)
    ELSE IF w.star1.snEvent \/ w.star2.snEvent
    THEN EvaluateSupernovae(w, TRUE, kick)
    ELSE MassChangesAndMerger(ResolveMassChanges(w, collapse))

\* the supernovae that mass changes are responsible for
LateSupernovae(w, kick) ==
    IF w.star1.snEvent \/ w.star2.snEvent THEN EvaluateSupernovae(w, FALSE, kick) ELSE w

\* "assign new values to previous values, for following timestep"
KeepAsPrevious(w) ==
    CalculateEnergyAndAngularMomentum([w EXCEPT !.bin.ePrev = w.bin.e, !.bin.aPrev = w.bin.a])

\* EvaluateBinary after CalculateMassTransfer: the winds and the immediate event
ImmediateEvent(o, w, loss, kick, collapse) ==
    [ResolveImmediateEvent(o, CalculateWindsMassLoss(o, w, loss), kick, collapse)
     EXCEPT !.bin.printExtra = FALSE]

\* EvaluateBinary after the immediate event
EvaluateBinaryEnd(w, kick) == KeepAsPrevious(LateSupernovae(w, kick))

\* what the stability test and the accretor's response may be, where they are read
MassTransferInputs(o, w) ==
    IF /\ ~Unbound(w)
       /\ o.UseMassTransfer
       /\ w.star1.isRLOF # w.star2.isRLOF
       /\ ~(BothCH(o, w) /\ HasStarsTouching(w))
    THEN [massRatioUnstable : IF qCritFlag(o) THEN BOOLEAN ELSE {FALSE},
          zetaStar : {Q(-20, 1), Q(20, 1)},
          fractionAccreted : {Half, One}]
    ELSE {NoMassTransferInputs}

\* EvaluateBinary: EvaluateBinaryPreamble and CalculateMassTransfer
MassTransferStep ==
    /\ pc = "EvaluateBinary"
    /\ \E w0 \in {InitialiseMassTransfer(opt, Now)} :
       \E ext \in MassTransferInputs(opt, w0) :
       \E w \in {MassTransferAfterInitialise(opt, w0, ext)} :
         /\ star1' = w.star1
         /\ star2' = w.star2
         /\ bin' = w.bin
         /\ ev' = [ev EXCEPT !.ext = ext]
    /\ pc' = "ResolveBinary"
    /\ UNCHANGED <<opt, ctor>>

(***************************************************************************)
(* CalculateTimeToCoalescence and ResolveCoalescence.  The code works in   *)
(* SI units; the model counts lengths in tenths of an AU, masses in Msol   *)
(* and times in units of HUBBLE_TIME (14.42 Gyr), in which G^3 / c^5 is    *)
(* 1/114,560 and the values fit.  pow, sqrt and the sum of the integration *)
(* loop are tables over the arguments the model gives them.                *)
(***************************************************************************)
AU == Q(10, 1)
MSOL_TO_KG == One
G3_C5 == Q(1, 114560)
HUBBLE_TIME == One

pow(x, y) ==
    CASE x = Half /\ y = Q(-12, 19) -> Q(629, 406)
      [] x = Q(1337, 1216) /\ y = Q(-870, 2299) -> Q(383, 397)

sqrt(x) ==
    CASE Compare(x, Zero) < 0 -> NaN
      [] x = Zero -> Zero

\* for (double e = 0.0; utils::Compare(e, p_Eccentricity) < 0; e += de) sum += ...
PetersSum(p_Eccentricity) ==
    CASE p_Eccentricity = Half -> Q(34, 379)

\* a large value is kept to the whole number below
Coarse(x) == IF Abs(x[1]) < 16384 THEN x ELSE <<RFloor(x), 1>>

\* the product of two doubles one of which may be NaN
NaNMul(x, y) == IF x = NaN \/ y = NaN THEN NaN ELSE RMul(x, y)

Power3(x) == RMul(RMul(x, x), x)
Power4(x) == RMul(RMul(x, x), RMul(x, x))

PetersBeta(p_Mass1, p_Mass2) ==
    RMul(RMul(Q(64, 5), G3_C5), RMul(RMul(p_Mass1, p_Mass2), RAdd(p_Mass1, p_Mass2)))

PetersC0(p_SemiMajorAxis, e) ==
    RMul(RMul(p_SemiMajorAxis, RSub(One, RMul(e, e))),
         RMul(pow(e, Q(-12, 19)),
              pow(RAdd(One, RDiv(RMul(Q(121, 1), RMul(e, e)), Q(304, 1))), Q(-870, 2299))))

\* "time for a circular binary to merge"
TimeCircular(p_SemiMajorAxis, beta) == RDiv(Power4(p_SemiMajorAxis), RMul(Q(4, 1), beta))

TimeEccentric(p_SemiMajorAxis, e, beta) ==
    IF Compare(e, Q(1, 100)) < 0
    THEN RDiv(RMul(Power4(PetersC0(p_SemiMajorAxis, e)), pow(e, Q(48, 19))),
              RMul(Q(4, 1), beta))
    ELSE IF Compare(e, Q(99, 100)) > 0
    THEN NaNMul(TimeCircular(p_SemiMajorAxis, beta),
                NaNMul(RMul(Q(768, 425), Power3(RSub(One, RMul(e, e)))),
                       sqrt(RSub(One, RMul(e, e)))))
    ELSE RMul(Coarse(RMul(Q(12, 19),
                          Coarse(RDiv(Power4(PetersC0(p_SemiMajorAxis, e)), beta)))),
              PetersSum(e))

CalculateTimeToCoalescence(p_SemiMajorAxis, p_Eccentricity, p_Mass1, p_Mass2) ==
    IF Compare(p_Eccentricity, Zero) # 0
    THEN TimeEccentric(p_SemiMajorAxis, p_Eccentricity, PetersBeta(p_Mass1, p_Mass2))
    ELSE TimeCircular(p_SemiMajorAxis, PetersBeta(p_Mass1, p_Mass2))

\* (tC / SECONDS_IN_YEAR) * YEAR_TO_MYR: there are 14,420 Myr in the unit of time
TimeInMyr(tC) == IF tC = NaN THEN NaN ELSE RMul(Coarse(tC), Q(14420, 1))

\* the time to coalescence of the binary as it is
TimeToCoalescence(w) ==
    CalculateTimeToCoalescence(RMul(w.bin.a, AU), w.bin.e,
                               RMul(w.star1.mass, MSOL_TO_KG),
                               RMul(w.star2.mass, MSOL_TO_KG))

CoalescenceUnflagged(w, tC) ==
    [w EXCEPT !.bin.aAtDCOFormation = w.bin.a,
              !.bin.eAtDCOFormation = w.bin.e,
              !.bin.timeToCoalescence = TimeInMyr(tC),
              !.bin.merged = Compare(tC, HUBBLE_TIME) < 0,
              !.bin.mergesInHubbleTime = FALSE]

\* ResolveCoalescence, once tC is known
CoalescenceAfter(w, tC) ==
    [w EXCEPT !.bin.aAtDCOFormation = w.bin.a,
              !.bin.eAtDCOFormation = w.bin.e,
              !.bin.timeToCoalescence = TimeInMyr(tC),
              !.bin.merged = Compare(tC, HUBBLE_TIME) < 0,
              !.bin.mergesInHubbleTime = Compare(tC, HUBBLE_TIME) < 0]

ResolveCoalescence(w) ==
    CHOOSE r \in {CoalescenceAfter(w, tC) : tC \in {TimeToCoalescence(w)}} : TRUE

\* a loop that never looks at the error flag
StatusIgnoringError(o, w) ==
    IF StellarMerger(w) THEN "STELLAR_MERGER"
    ELSE IF HasStarsTouching(w) THEN "STARS_TOUCHING"
    ELSE IF IsUnbound(w) /\ ~o.EvolveUnboundSystems THEN "UNBOUND"
    ELSE IF IsDCO(w) THEN "STOPPED"
    ELSE IF IsWDandWD(w) THEN "WD_WD"
    ELSE IF RLt(o.MaxEvolutionTime, w.bin.time) THEN "TIMES_UP"
    ELSE "CONTINUE"

\* a loop that resolves every double compact object, whatever else is the matter with it
StatusResolvingEveryDCO(o, w) ==
    IF IsDCO(w) THEN "STOPPED"
    ELSE IF StellarMerger(w) THEN "STELLAR_MERGER"
    ELSE IF HasStarsTouching(w) THEN "STARS_TOUCHING"
    ELSE IF IsUnbound(w) /\ ~o.EvolveUnboundSystems THEN "UNBOUND"
    ELSE IF w.bin.error # "NONE" THEN "BINARY_ERROR"
    ELSE IF IsWDandWD(w) THEN "WD_WD"
    ELSE IF RLt(o.MaxEvolutionTime, w.bin.time) THEN "TIMES_UP"
    ELSE "CONTINUE"

\* the status Evolve() gives the binary after EvaluateBinary
StatusAfterEvaluate(o, w) ==
    IF StellarMerger(w) THEN "STELLAR_MERGER"
    ELSE IF HasStarsTouching(w) THEN "STARS_TOUCHING"
    ELSE IF IsUnbound(w) /\ ~o.EvolveUnboundSystems THEN "UNBOUND"
    ELSE IF w.bin.error # "NONE" THEN "BINARY_ERROR"
    ELSE IF IsDCO(w) THEN "STOPPED"
    ELSE IF IsWDandWD(w) THEN "WD_WD"
    ELSE IF RLt(o.MaxEvolutionTime, w.bin.time) THEN "TIMES_UP"
    ELSE "CONTINUE"

WindInputs(o, w) ==
    IF o.UseMassLoss /\ ~(o.UseMassTransfer /\ w.bin.massTransfer)
    THEN WindLossFractions
    ELSE {Zero}

KickInputs(w) ==
    IF w.star1.snEvent \/ w.star2.snEvent
    THEN KickOutcomes
    ELSE {[e |-> Zero, aFactor |-> One]}

\* the star that its changed mass may make collapse: one whose mass the transfer or
\* the winds change, at the stage that ends in the explosion
CollapseInputs(w, loss) ==
    {0} \cup {k \in {1, 2} : /\ StarOf(w, k).mtDiff # Zero \/ loss # Zero
                             /\ AgeChanges(StarOf(w, k)) = {Exploded(StarOf(w, k))}
                             /\ ~w.star1.snEvent /\ ~w.star2.snEvent}

\* EvaluateBinary: CalculateWindsMassLoss and the immediate event
ImmediateEventStep ==
    /\ pc = "ResolveBinary"
    /\ \E loss \in WindInputs(opt, Now), kick \in KickInputs(Now) :
       \E collapse \in CollapseInputs(Now, loss) :
       \E w \in {ImmediateEvent(opt, Now, loss, kick, collapse)} :
         /\ star1' = w.star1
         /\ star2' = w.star2
         /\ bin' = w.bin
    /\ pc' = "AfterEvent"
    /\ UNCHANGED <<opt, ctor, ev>>

(***************************************************************************)
(* The RLOF and Be-binary detail records.  A pointer to a slot of a record *)
(* is the slot's name.                                                     *)
(***************************************************************************)
\* *p, for a pointer p into the record
Slot(details, p) == IF p = "props1" THEN details.props1 ELSE details.props2

\* *p = v
WithSlot(details, p, v) ==
    IF p = "props1" THEN [details EXCEPT !.props1 = v]
    ELSE IF p = "props2" THEN [details EXCEPT !.props2 = v]
    ELSE details

\* a switch that forgets to give the saved pointer to currentProps
SwitchWithoutTmp(details) == [details EXCEPT !.previousProps = details.currentProps]

\* "switch previous<->current (preserves existing current as (new) previous)"
SwitchProps(details) ==
    [details EXCEPT !.previousProps = details.currentProps,
                    !.currentProps = details.previousProps]

\* "now save (new) current", RLOF
SaveRLOFProperties(w, details) ==
    WithSlot(details, details.currentProps,
             [stellarType1 |-> w.star1.type, stellarType2 |-> w.star2.type,
              mass1 |-> w.star1.mass, mass2 |-> w.star2.mass,
              radius1 |-> w.star1.radius, radius2 |-> w.star2.radius,
              separation |-> RMul(w.bin.a, AU_TO_RSOL),
              eventCounter |-> Slot(details, details.previousProps).eventCounter,
              time |-> w.bin.time,
              isRLOF1 |-> w.star1.isRLOF, isRLOF2 |-> w.star2.isRLOF,
              isCE |-> w.bin.CEEnow])

StashRLOFProperties(o, w) ==
    IF ~o.RLOFPrinting THEN w
    ELSE [w EXCEPT !.bin.RLOFDetails = SaveRLOFProperties(w, SwitchProps(w.bin.RLOFDetails))]

\* "every time we print a MT event happened, increment counter"
CountRLOFEvent(w, details) ==
    IF w.star1.isRLOF \/ w.star2.isRLOF
    THEN WithSlot(details, details.currentProps,
                  [Slot(details, details.currentProps) EXCEPT !.eventCounter = @ + 1])
    ELSE details

PrintRLOFParameters(o, w) ==
    IF ~o.RLOFPrinting THEN w
    ELSE [w EXCEPT !.bin.RLOFDetails =
                       CountRLOFEvent(w, StashRLOFProperties(o, w).bin.RLOFDetails)]

\* a neutron star with a main-sequence companion
IsBeBinary(w) == HasOneOf(w, {"NEUTRON_STAR"}) /\ HasOneOf(w, {"MS_LTE_07", "MS_GT_07"})

\* "now save (new) current", Be binary
SaveBeBinaryProperties(w, details, neutronStar, companionStar) ==
    WithSlot(details, details.currentProps,
             [dt |-> w.bin.dt,
              totalTime |-> RAdd(Slot(details, details.previousProps).dt, w.bin.dt),
              massNS |-> neutronStar.mass,
              companionMass |-> companionStar.mass,
              companionRadius |-> companionStar.radius,
              separation |-> RMul(w.bin.a, AU_TO_RSOL),
              eccentricity |-> w.bin.e])

StashBeBinaryProperties(o, w) ==
    IF ~o.BeBinaries \/ ~IsBeBinary(w) THEN w
    ELSE [w EXCEPT !.bin.BeBinaryDetails =
              SaveBeBinaryProperties(w, SwitchProps(w.bin.BeBinaryDetails),
                  IF w.star1.type = "NEUTRON_STAR" THEN w.star1 ELSE w.star2,
                  IF w.star1.type = "NEUTRON_STAR" THEN w.star2 ELSE w.star1)]

PrintBeBinary(o, w) == IF ~o.BeBinaries THEN w ELSE StashBeBinaryProperties(o, w)

\* the statuses with which the loop's body goes as far as PrintBeBinary
ReachesBeBinary == {"STOPPED", "WD_WD", "TIMES_UP", "CONTINUE"}

\* the loop's body from PrintRLOFParameters to ResolveCoalescence
PrintAndResolve(o, w, status) ==
    IF status \in ReachesBeBinary
    THEN IF status = "STOPPED"
         THEN ResolveCoalescence(PrintBeBinary(o, PrintRLOFParameters(o, w)))
         ELSE PrintBeBinary(o, PrintRLOFParameters(o, w))
    ELSE PrintRLOFParameters(o, w)

\* "if (IsDCO()) { ResolveCoalescence(); ...": the calls of ResolveCoalescence are counted
CoalescenceCounted(e, status) ==
    IF status = "STOPPED" THEN [e EXCEPT !.coalescences = e.coalescences + 1] ELSE e

\* history: the total mass that the end of EvaluateBinary leaves recorded
TotalMassRecorded(e, w) == [e EXCEPT !.totalMassRecorded = w.bin.totalMass]

\* The rest of EvaluateBinary, and of the loop's body after it.
ResolveStep ==
    /\ pc = "AfterEvent"
    /\ \E kick \in KickInputs(Now) :
       \E w \in {EvaluateBinaryEnd(Now, kick)} :
       \E status \in {StatusAfterEvaluate(opt, w)} :
       \E dt \in NextTimesteps(opt, ev, status) :
         /\ star1' = w.star1
         /\ star2' = w.star2
         /\ bin' = PrintAndResolve(opt, w, status).bin
         /\ ev' = EndOfIteration(opt, TotalMassRecorded(CoalescenceCounted(ev, status), w),
                                 status, dt)
         /\ pc' = IF ev'.status = "CONTINUE" THEN "loop" ELSE "done"
    /\ UNCHANGED <<opt, ctor>>

NextEvolve ==
    \/ EvolveBegin
    \/ Timestep
    \/ MassTransferStep
    \/ ImmediateEventStep
    \/ ResolveStep

SpecEvolve == InitEvolve /\ [][NextEvolve]_vars

(***************************************************************************)
(* ResolveSupernova on its own: the binary is in one of the states Evolve  *)
(* can bring it to, m_Supernova and m_Companion are set, and the function  *)
(* is called once, whether or not m_Supernova is a supernova.              *)
(***************************************************************************)
\* a kick that leaves the binary on the edge: e_ = 1, a_ = h_^2 / 0
MarginalKick ==
    [e |-> One, aFactor |-> <<1, 0>>, thetaE |-> 0, phiE |-> 2, psiE |-> 1,
     v |-> Q(30, 1), magnitude |-> Q(45, 1), natal |-> <<2, 0, 0>>,
     Vcm |-> <<0, 0, 1>>, V1inf |-> <<3, 0, 0>>, V2inf |-> <<0, -1, 0>>]
SupernovaKicks == KickOutcomes \cup {MarginalKick}

\* <<a, e, m_Unbound>>: a bound binary, a binary a supernova has disrupted, a binary
\* whose separation mass changes have used up, and a disrupted binary that
\* InitialiseMassTransfer has circularised
SupernovaOrbits ==
    {<<Q(4, 43), Half, FALSE>>, <<Q(-2, 43), Two, TRUE>>, <<Zero, Half, FALSE>>,
     <<Q(2, 43), Zero, TRUE>>}

\* <<ThetaE, PhiE, PsiE, systemic velocity>>: before and after an earlier supernova
SupernovaFrames == {<<0, 0, 0, Vector3d>>, <<1, 3, 2, <<1, 0, 0>>>>}

SupernovaStar(s, isSN, frame) ==
    [(IF isSN THEN Exploded(s) ELSE s) EXCEPT !.velocity = frame[4]]

InitSupernova ==
    /\ pc = "ResolveSupernova"
    /\ opt = [DefaultOptions EXCEPT !.EvolveUnboundSystems = TRUE]
    /\ ctor = [NoCtor EXCEPT !.kind = "explicit", !.attempts = 1]
    /\ ev = [NoEvolve EXCEPT !.stepNum = 1]
    /\ \E orbit \in SupernovaOrbits, frame \in SupernovaFrames, sn \in {1, 2},
          isSN1 \in BOOLEAN, isSN2 \in BOOLEAN :
       \E w \in {ConstructedWorld(opt, Q(8, 1), Q(8, 1), orbit[1], orbit[2], FALSE, FALSE)} :
         /\ star1 = SupernovaStar(w.star1, isSN1, frame)
         /\ star2 = SupernovaStar(w.star2, isSN2, frame)
         /\ bin = [w.bin EXCEPT !.unbound = orbit[3],
                                !.thetaE = frame[1], !.phiE = frame[2], !.psiE = frame[3],
                                !.iPrime = frame[1],
                                !.systemicVelocity = frame[4],
                                !.systemicSpeed = Magnitude(frame[4]),
                                !.supernova = sn, !.companion = 3 - sn]

ResolveSupernovaStep ==
    /\ pc = "ResolveSupernova"
    /\ \E kick \in SupernovaKicks :
       \E w \in {ResolveSupernova(Now, bin.supernova, kick)} :
         /\ star1' = w.star1
         /\ star2' = w.star2
         /\ bin' = w.bin
    /\ pc' = IF ResolveSupernovaReturns(Now, bin.supernova) THEN "true" ELSE "false"
    /\ UNCHANGED <<opt, ctor, ev>>

NextSupernova == ResolveSupernovaStep

SpecSupernova == InitSupernova /\ [][NextSupernova]_vars

(***************************************************************************)
(* Properties of Evolve().                                                 *)
(***************************************************************************)
\* the iterations the loop may make
IterationsAllowed == Max(1, opt.MaxNumberOfTimestepIterations)

\* how far Evolve() is from its end, in steps
StepsLeft ==
    CASE pc = "done" -> 0
      [] pc = "constructed" -> 4 * IterationsAllowed + 2
      [] pc = "loop" -> 4 * (IterationsAllowed - ev.iterations) + 1
      [] pc = "AfterEvent" -> 4 * (IterationsAllowed - ev.iterations) + 2
      [] pc = "ResolveBinary" -> 4 * (IterationsAllowed - ev.iterations) + 3
      [] pc = "EvaluateBinary" -> 4 * (IterationsAllowed - ev.iterations) + 4
      [] OTHER -> 0

\* C5: Evolve() terminates with a terminal status: the loop runs at most
\* max(1, MaxNumberOfTimestepIterations) times, the step counter is one ahead of the
\* iterations made whenever the loop goes on, a binary whose step counter has reached
\* the maximum at the end of an iteration is given STEPS_UP, and every step brings
\* Evolve() nearer to its end.
C5_EvolveTerminates ==
    /\ [](ev.iterations <= IterationsAllowed)
    /\ [](pc = "loop" => ev.status = "CONTINUE" /\ ev.stepNum = ev.iterations + 1)
    /\ [](pc = "done" => ev.status # "CONTINUE")
    /\ [](pc = "done" /\ ev.iterations > 0 /\ ev.stepNum >= opt.MaxNumberOfTimestepIterations
            => ev.status = "STEPS_UP")
    /\ [][StepsLeft' < StepsLeft /\ StepsLeft' >= 0]_vars

\* the loop has used its whole budget of steps
C5_Witness ==
    /\ pc = "done"
    /\ ev.status = "STEPS_UP"
    /\ opt.MaxNumberOfTimestepIterations = MaxStepsOption
    /\ ev.iterations = MaxStepsOption

ErrorIsSet == bin.error # "NONE"

\* Evolve() does not go on to another timestep once the error flag is set
ErrorStopsTheLoop == ErrorIsSet => pc \in {"ResolveBinary", "AfterEvent", "done"}

\* C6 (amended): when m_Error is set during a timestep Evolve() stops in that timestep,
\* with STEPS_UP if the step budget is reached, else STELLAR_MERGER if the stars have
\* merged, else STARS_TOUCHING if they touch, else UNBOUND if the binary is unbound and
\* unbound systems are not evolved, else BINARY_ERROR.
C6_ErrorStopsEvolution ==
    /\ ErrorStopsTheLoop
    /\ pc = "done" /\ ErrorIsSet =>
         ev.status = IF ev.stepNum >= opt.MaxNumberOfTimestepIterations THEN "STEPS_UP"
                     ELSE IF bin.stellarMerger THEN "STELLAR_MERGER"
                     ELSE IF HasStarsTouching(Now) THEN "STARS_TOUCHING"
                     ELSE IF IsUnbound(Now) /\ ~opt.EvolveUnboundSystems THEN "UNBOUND"
                     ELSE "BINARY_ERROR"

\* the error flag was set and Evolve() returned BINARY_ERROR
C6_Witness == pc = "done" /\ ErrorIsSet /\ ev.status = "BINARY_ERROR"

\* C6 as the claim states it: the status returned is an error status whatever else holds
C6_ErrorGivesErrorStatus ==
    /\ ErrorStopsTheLoop
    /\ pc = "done" /\ ErrorIsSet => ev.status \in {"SSE_ERROR", "BINARY_ERROR"}

\* CalculateMassTransfer has returned for a bound binary, mass transfer enabled
MassTransferResolved == pc = "ResolveBinary" /\ ~bin.unbound /\ opt.UseMassTransfer

NoTransferRecorded ==
    star1.mtDiff = Zero /\ star2.mtDiff = Zero /\ bin.aMassTransferDiff = Zero

BothOverflow == star1.isRLOF /\ star2.isRLOF
TouchingCH == BothCH(opt, Now) /\ HasStarsTouching(Now)

\* C7 (amended): both stars of a bound binary overflow: a common envelope is flagged, no
\* mass is transferred and no merger is flagged, unless CHE is enabled and both stars are
\* chemically homogeneous and touching: that check comes first and flags a merger, no
\* common envelope and no mass transfer.
C7_BothOverflowing ==
    MassTransferResolved /\ BothOverflow =>
        /\ NoTransferRecorded
        /\ bin.CEEnow = ~TouchingCH
        /\ bin.stellarMerger = TouchingCH

\* both stars overflow, not as touching chemically homogeneous stars
C7_Witness ==
    MassTransferResolved /\ BothOverflow /\ ~TouchingCH /\ bin.CEEnow /\ ~bin.stellarMerger

\* C7 as the claim states it: the common envelope comes before the merger of
\* touching chemically homogeneous stars
C7_CommonEnvelopeFirst ==
    MassTransferResolved /\ BothOverflow =>
        NoTransferRecorded /\ bin.CEEnow /\ ~bin.stellarMerger

\* C8: CalculateMassTransfer (with InitialiseMassTransfer) leaves an unbound binary's
\* orbit and its previous values alone, and sets none of the mass transfer, common
\* envelope and merger flags.
C8_UnboundBinaryIsLeftAlone ==
    [][pc = "EvaluateBinary" /\ bin.unbound =>
          /\ bin'.a = bin.a
          /\ bin'.e = bin.e
          /\ bin'.aPrev = bin.aPrev
          /\ bin'.ePrev = bin.ePrev
          /\ ~bin'.massTransfer
          /\ ~bin'.CEEnow
          /\ ~bin'.stellarMerger]_vars

\* the star CalculateMassTransfer takes for the donor, and the other one
DonorNow == IF star2.isRLOF THEN 2 ELSE 1
AccretorNow == IF star2.isRLOF THEN 1 ELSE 2

\* CalculateMassTransfer has resolved the overflow of one star alone
SingleDonorResolved ==
    MassTransferResolved /\ star1.isRLOF # star2.isRLOF /\ ~TouchingCH

\* the critical-mass-ratio test found the transfer unstable
UnstableByMassRatio == qCritFlag(opt) /\ ev.ext.massRatioUnstable

StableRecorded == bin.tracker \in {"STABLE_FROM_1_TO_2", "STABLE_FROM_2_TO_1"}

ZetaStarIsLarger == RLt(bin.zetaLobe, bin.zetaStar)

\* what the claim says of a donor of type donorType and an accretor of type accretorType
StableAsClaimed(donorType, accretorType, zetaStarIsLarger) ==
    IF donorType \in {"NAKED_HELIUM_STAR_HERTZSPRUNG_GAP", "NAKED_HELIUM_STAR_GIANT_BRANCH"}
    THEN CASE opt.CaseBBStabilityPrescription = "ALWAYS_STABLE" -> TRUE
           [] opt.CaseBBStabilityPrescription = "ALWAYS_UNSTABLE" -> FALSE
           [] opt.CaseBBStabilityPrescription = "ALWAYS_STABLE_ONTO_NSBH" ->
                  accretorType \in {"NEUTRON_STAR", "BLACK_HOLE"} \/ zetaStarIsLarger
           [] OTHER -> zetaStarIsLarger
    ELSE zetaStarIsLarger

\* C9: one star overflows and the zeta comparison is used: the transfer is stable if and
\* only if zeta_star > zeta_lobe, but for a stripped-helium donor it is stable always
\* under ALWAYS_STABLE, never under ALWAYS_UNSTABLE, and whenever the accretor is a
\* neutron star or a black hole under ALWAYS_STABLE_ONTO_NSBH.
C9_StableByZeta ==
    [][pc = "EvaluateBinary" /\ SingleDonorResolved' /\ ~UnstableByMassRatio' =>
          (StableRecorded' <=> StableAsClaimed(StarOf(Now, DonorNow').type,
                                               StarOf(Now, AccretorNow').type,
                                               ZetaStarIsLarger'))]_vars

\* a stripped-helium donor's transfer onto a neutron star is stable with the smaller zeta
C9_Witness ==
    /\ SingleDonorResolved
    /\ StableRecorded
    /\ ~ZetaStarIsLarger
    /\ opt.CaseBBStabilityPrescription = "ALWAYS_STABLE_ONTO_NSBH"
    /\ StarOf(Now, AccretorNow).type = "NEUTRON_STAR"
    /\ StarOf(Now, DonorNow).type = "CARBON_OXYGEN_WHITE_DWARF"

MergerNotCommonEnvelope == bin.stellarMerger /\ ~bin.CEEnow
CommonEnvelopeNotMerger == bin.CEEnow /\ ~bin.stellarMerger

\* the zeta comparison found the transfer unstable
UnstableByZeta == ~UnstableByMassRatio /\ ~StableRecorded

\* C10 (amended): an unstable transfer from a single donor records no change of the
\* masses or of the separation; found unstable by the zeta comparison, a main-sequence
\* donor is merged and no common envelope flagged, any other donor gets a common
\* envelope and no merger; found unstable by the critical-mass-ratio test, every donor
\* gets a common envelope and no merger.
C10_UnstableTransfer ==
    [][pc = "EvaluateBinary" /\ SingleDonorResolved' /\ ~StableRecorded' =>
          /\ NoTransferRecorded'
          /\ IF UnstableByZeta' /\ StarOf(Now, DonorNow').type \in MAIN_SEQUENCE
             THEN MergerNotCommonEnvelope'
             ELSE CommonEnvelopeNotMerger']_vars

\* the zeta comparison found a main-sequence donor's transfer unstable
C10_Witness ==
    /\ SingleDonorResolved
    /\ UnstableByZeta
    /\ StarOf(Now, DonorNow).type \in MAIN_SEQUENCE
    /\ MergerNotCommonEnvelope
    /\ NoTransferRecorded

\* C10 as the claim states it: either test merges a main-sequence donor
C10_MainSequenceDonorMerges ==
    [][pc = "EvaluateBinary" /\ SingleDonorResolved' /\ ~StableRecorded' =>
          /\ NoTransferRecorded'
          /\ IF StarOf(Now, DonorNow').type \in MAIN_SEQUENCE
             THEN MergerNotCommonEnvelope'
             ELSE CommonEnvelopeNotMerger']_vars

(***************************************************************************)
(* Properties of ResolveCommonEnvelopeEvent.                               *)
(***************************************************************************)
\* EvaluateBinary is about to resolve a common envelope event
CommonEnvelopeDue ==
    pc = "ResolveBinary" /\ (bin.CEEnow \/ bin.stellarMerger) /\ ~BothCH(opt, Now)

\* the star is treated as a main-sequence star that survives the event
KeepsFullMass(s) ==
    /\ opt.AllowMainSequenceStarToSurviveCommonEnvelope
    /\ s.type \in {"MS_LTE_07", "MS_GT_07", "NAKED_HELIUM_STAR_MS"}

\* the final mass and the envelope mass the claim gives star s
FinalMassAsClaimed(s, massFinal, massEnv) ==
    IF KeepsFullMass(s)
    THEN massFinal = s.mass /\ massEnv = Zero
    ELSE massFinal = s.coreMass /\ massEnv = RSub(s.mass, s.coreMass)

\* C11: every common envelope resolution leaves e = 0, records 0 as the eccentricity
\* after the event, and gives every star its core mass as final mass (its envelope
\* being mass minus core mass), but a main-sequence star its full mass (and no
\* envelope) when AllowMainSequenceStarToSurviveCommonEnvelope is set.
C11_CommonEnvelopeMassesAndOrbit ==
    [][CommonEnvelopeDue =>
          /\ bin'.e = Zero
          /\ bin'.postCEE.eccentricity = Zero
          /\ FinalMassAsClaimed(star1, bin'.mass1Final, bin'.massEnv1)
          /\ FinalMassAsClaimed(star2, bin'.mass2Final, bin'.massEnv2)]_vars

\* a giant donor lost its envelope to a main-sequence companion on an eccentric orbit
C11_Witness ==
    /\ pc = "AfterEvent"
    /\ bin.tracker = "CE_FROM_1_TO_2"
    /\ star2.type \in MAIN_SEQUENCE
    /\ star1.mass = bin.mass1Final
    /\ Compare(bin.massEnv1, Zero) > 0
    /\ bin.preCEE.eccentricity # Zero
    /\ bin.e = Zero

\* the test after the event: the final separation is not positive, or the stars are
\* wider than it
TooWideForOrbit ==
    \/ Compare(bin.a, Zero) <= 0
    \/ \E radii \in {RAdd(star1.radius, star2.radius)} :
         \E separation \in {RMul(bin.a, AU_TO_RSOL)} : Compare(radii, separation) > 0

\* a main-sequence star allowed to survive the event is overflowing its Roche lobe
MainSequenceDonor ==
    \/ KeepsFullMass(star1) /\ star1.isRLOF
    \/ KeepsFullMass(star2) /\ star2.isRLOF

\* the event found a core and an envelope in star 1, in star 2
HasEnvelope1 == Compare(bin.massEnv1, Zero) > 0 /\ Compare(bin.mass1Final, Zero) > 0
HasEnvelope2 == Compare(bin.massEnv2, Zero) > 0 /\ Compare(bin.mass2Final, Zero) > 0

\* C12 (amended): after ResolveCommonEnvelopeEvent a stellar merger is flagged if and
\* only if a main-sequence star allowed to survive was a donor, or neither star had an
\* envelope to lose, or the final separation is not positive, or the two radii after
\* the event add up to more than the final separation.
C12_MergerAfterCommonEnvelope ==
    [][CommonEnvelopeDue =>
          (bin'.stellarMerger <=>
              \/ MainSequenceDonor
              \/ ~HasEnvelope1' /\ ~HasEnvelope2'
              \/ TooWideForOrbit')]_vars

\* a common envelope was flagged, and the main-sequence donor is merged although the
\* stars fit in the final orbit
C12_Witness ==
    /\ pc = "AfterEvent"
    /\ bin.CEEnow
    /\ bin.tracker = "CE_MS_WITH_CO"
    /\ bin.stellarMerger
    /\ ~TooWideForOrbit
    /\ opt.AllowMainSequenceStarToSurviveCommonEnvelope

\* C12 as the claim states it: the separation test alone decides
C12_OnlyTheSeparationDecides ==
    [][CommonEnvelopeDue => (bin'.stellarMerger <=> TooWideForOrbit')]_vars

\* both envelope-binding terms of the event about to be resolved are positive
BothBindingTermsPositive ==
    /\ Compare(EnvelopeBinding(opt, star1), Zero) > 0
    /\ Compare(EnvelopeBinding(opt, star2), Zero) > 0

\* the stars are a positive distance apart at periastron when the event begins
PeriastronIsPositive == Compare(PeriastronRsol(Now), Zero) > 0

\* both stars have positive mass, and neither has a negative core mass, when the event begins
MassesArePositive ==
    /\ Compare(star1.mass, Zero) > 0 /\ Compare(star2.mass, Zero) > 0
    /\ Compare(star1.coreMass, Zero) >= 0 /\ Compare(star2.coreMass, Zero) >= 0

CommonEnvelopeFlagged == pc = "ResolveBinary" /\ bin.CEEnow /\ ~BothCH(opt, Now)

\* C14 (amended): the common-envelope event count starts at 0, goes up by exactly one in
\* every timestep that resolves a common envelope event, which is every timestep in which
\* a common-envelope event or a stellar merger was flagged (unless both stars evolve
\* chemically homogeneously), and changes in no other way; the double-core flag of the
\* event is true exactly when both stars have positive envelope mass and positive final
\* mass, and no other step changes it.
C14_CommonEnvelopeCount ==
    /\ bin.CEEcount = 0
    /\ [][IF CommonEnvelopeDue
          THEN /\ bin'.CEEcount = bin.CEEcount + 1
               /\ bin'.doubleCoreCE <=> HasEnvelope1' /\ HasEnvelope2'
          ELSE /\ bin'.CEEcount = bin.CEEcount
               /\ bin'.doubleCoreCE = bin.doubleCoreCE]_vars

\* the first event has been counted, one of two stars that both have a core and an
\* envelope, and the binary has survived it
C14_Witness ==
    /\ pc = "AfterEvent"
    /\ bin.CEEcount = 1
    /\ bin.doubleCoreCE
    /\ ~bin.stellarMerger
    /\ Compare(bin.massEnv1, Zero) > 0
    /\ Compare(bin.massEnv2, Zero) > 0

\* C14 as the claim states it: the count goes up only in a timestep in which a
\* common-envelope event was flagged, and the double-core flag is true exactly when both
\* envelope masses are positive
C14_CountedOnlyWhenFlagged ==
    /\ bin.CEEcount = 0
    /\ [][/\ bin'.CEEcount = IF CommonEnvelopeFlagged THEN bin.CEEcount + 1 ELSE bin.CEEcount
          /\ CommonEnvelopeFlagged =>
                (bin'.doubleCoreCE <=> /\ Compare(bin'.massEnv1, Zero) > 0
                                       /\ Compare(bin'.massEnv2, Zero) > 0)]_vars

(***************************************************************************)
(* Properties of ResolveSupernova.                                         *)
(***************************************************************************)
m_Supernova == StarOf(Now, bin.supernova)
m_Companion == StarOf(Now, bin.companion)

ResolveSupernovaCalled == pc = "ResolveSupernova"

\* C15: ResolveSupernova for a star that is not a supernova returns false and changes
\* nothing: not the orbit, the pre-supernova values, the unbound flag, the Euler angles,
\* the systemic velocity, nor any member of either star.
C15_NotASupernova ==
    [][ResolveSupernovaCalled /\ ~m_Supernova.snEvent =>
          /\ pc' = "false"
          /\ bin' = bin
          /\ star1' = star1
          /\ star2' = star2]_vars

\* the call was refused while the other star was a supernova
C15_Witness ==
    /\ pc = "false"
    /\ ~m_Supernova.snEvent
    /\ m_Companion.snEvent
    /\ ~IsUnbound(Now)

\* the binary is bound when ResolveSupernova is called for a supernova
SupernovaInBoundBinary ==
    ResolveSupernovaCalled /\ m_Supernova.snEvent /\ ~bin.unbound /\ ~IsUnbound(Now)

SupernovaInUnboundBinary == ResolveSupernovaCalled /\ m_Supernova.snEvent /\ IsUnbound(Now)

\* C17: a supernova in a binary that is already unbound changes the velocity of the
\* exploding star only: the separation, the eccentricity, the unbound flag, the systemic
\* velocity and speed, the Euler angles and the companion's velocity stay as they were,
\* and the pre-supernova orbital velocity and the dimensionless kick are NaN.
C17_SupernovaOfUnbound ==
    [][SupernovaInUnboundBinary =>
          /\ bin'.a = bin.a /\ bin'.e = bin.e /\ bin'.unbound = bin.unbound
          /\ bin'.systemicVelocity = bin.systemicVelocity
          /\ bin'.systemicSpeed = bin.systemicSpeed
          /\ bin'.thetaE = bin.thetaE /\ bin'.phiE = bin.phiE /\ bin'.psiE = bin.psiE
          /\ m_Companion'.velocity = m_Companion.velocity
          /\ \E kick \in SupernovaKicks :
                m_Supernova'.velocity =
                    VAdd(m_Supernova.velocity,
                         RotateVector(kick.natal, bin.thetaE, bin.phiE, bin.psiE))
          /\ bin'.orbitalVelocityPreSN = NaN
          /\ bin'.uK = NaN]_vars

\* the second supernova of a disrupted binary: the exploding star has left the companion
C17_Witness ==
    /\ pc = "true"
    /\ bin.unbound
    /\ bin.uK = NaN
    /\ bin.thetaE = 1
    /\ m_Supernova.velocity # m_Companion.velocity
    /\ bin.systemicVelocity = m_Companion.velocity

(***************************************************************************)
(* Properties of ResolveCoalescence.                                       *)
(***************************************************************************)
\* the step ends EvaluateBinary with a double compact object, and the loop resolves its
\* coalescence
CoalescenceResolved ==
    /\ pc = "AfterEvent"
    /\ \E kick \in KickInputs(Now) :
       \E w \in {EvaluateBinaryEnd(Now, kick)} :
          /\ StatusAfterEvaluate(opt, w) = "STOPPED"
          /\ star1' = w.star1 /\ star2' = w.star2
          /\ bin'.a = w.bin.a /\ bin'.e = w.bin.e /\ bin'.unbound = w.bin.unbound

\* C18: ResolveCoalescence records the time to coalescence, and the separation and the
\* eccentricity of the binary as they are; the binary merges in a Hubble time exactly
\* when that time is below HUBBLE_TIME; and at all times merged = mergesInHubbleTime.
C18_Coalescence ==
    /\ [](bin.merged = bin.mergesInHubbleTime)
    /\ [][CoalescenceResolved =>
             /\ bin'.aAtDCOFormation = bin'.a
             /\ bin'.eAtDCOFormation = bin'.e
             /\ bin'.timeToCoalescence = TimeInMyr(TimeToCoalescence(Now'))
             /\ bin'.mergesInHubbleTime <=>
                    Compare(TimeToCoalescence(Now'), HUBBLE_TIME) < 0]_vars

\* a close double neutron star that merges in a Hubble time
C18_Witness ==
    /\ pc = "done"
    /\ ev.status = "STOPPED"
    /\ bin.mergesInHubbleTime
    /\ bin.merged
    /\ bin.aAtDCOFormation = bin.a
    /\ Compare(bin.timeToCoalescence, Zero) > 0

(***************************************************************************)
(* The double compact object.                                              *)
(***************************************************************************)
\* the binary is a double compact object that has not merged, whose stars do not touch,
\* that is not stopped for being unbound, and that has no error
DCOWithNoCondition(o, w) ==
    /\ IsDCO(w)
    /\ ~StellarMerger(w)
    /\ ~HasStarsTouching(w)
    /\ ~(IsUnbound(w) /\ ~o.EvolveUnboundSystems)
    /\ w.bin.error = "NONE"

\* C19: ResolveCoalescence is executed at most once during Evolve; it is executed at the
\* end of a timestep exactly when the binary is then a double compact object with no merger,
\* touching, unbound-stop or error condition, which is therefore the first such timestep;
\* and once it has been executed the loop has ended, so that no later timestep is evolved.
C19_ResolvedOnce ==
    /\ [](ev.coalescences <= 1)
    /\ [](ev.coalescences = 1 => pc = "done" /\ ev.status \in {"STOPPED", "STEPS_UP"})
    /\ [][/\ pc = "AfterEvent" =>
                IF DCOWithNoCondition(opt, Now')
                THEN ev'.coalescences = ev.coalescences + 1
                ELSE ev'.coalescences = ev.coalescences
          /\ pc # "AfterEvent" =>
                /\ ev'.coalescences = ev.coalescences
                /\ pc' = "done" => ~DCOWithNoCondition(opt, Now')]_vars

\* a double compact object was resolved in the second timestep of two or more allowed
C19_Witness ==
    /\ pc = "done"
    /\ ev.coalescences = 1
    /\ ev.status = "STOPPED"
    /\ ev.iterations >= 2
    /\ ev.iterations < opt.MaxNumberOfTimestepIterations
    /\ DCOWithNoCondition(opt, Now)

(***************************************************************************)
(* The double-buffered detail records.                                     *)
(***************************************************************************)
\* the two pointers of a record point to its two slots, one each
DistinctSlots(details) ==
    /\ details.currentProps # details.previousProps
    /\ {details.currentProps, details.previousProps} = {"props1", "props2"}

\* the record is as it was, or its pointers were exchanged and the slot that was current,
\* now the previous one, holds what it held
Exchanged(old, new) ==
    \/ new = old
    \/ /\ new.previousProps = old.currentProps
       /\ new.currentProps = old.previousProps
       /\ Slot(new, new.previousProps) = Slot(old, old.currentProps)

\* C20: in every reachable state the currentProps and previousProps of the RLOF record and
\* of the Be-binary record point to two distinct slots, which are the record's props1 and
\* props2; every step that changes a record (a stash that takes effect) exchanges its two
\* pointers and leaves the slot that was current, now the previous one, holding exactly
\* the values it held; the RLOF record changes exactly at the end of a timestep evaluated
\* with RLOFPrinting, the Be-binary record only with BeBinaries for a Be binary.
C20_DoubleBuffers ==
    /\ [](DistinctSlots(bin.RLOFDetails) /\ DistinctSlots(bin.BeBinaryDetails))
    /\ [][/\ Exchanged(bin.RLOFDetails, bin'.RLOFDetails)
          /\ Exchanged(bin.BeBinaryDetails, bin'.BeBinaryDetails)
          /\ bin'.RLOFDetails # bin.RLOFDetails <=> pc = "AfterEvent" /\ opt.RLOFPrinting
          /\ bin'.BeBinaryDetails # bin.BeBinaryDetails =>
                pc = "AfterEvent" /\ opt.BeBinaries /\ IsBeBinary(Now')]_vars

\* the RLOF record was stashed twice, its pointers back where they began and both slots
\* filled, and the Be-binary record once, for a neutron star and its companion
C20_Witness ==
    /\ bin.RLOFDetails.currentProps = "props1"
    /\ Compare(bin.RLOFDetails.props2.time, Zero) > 0
    /\ RLt(bin.RLOFDetails.props2.time, bin.RLOFDetails.props1.time)
    /\ bin.BeBinaryDetails.currentProps = "props2"
    /\ bin.BeBinaryDetails.props2.massNS = RemnantMass
    /\ bin.BeBinaryDetails.props1 = BeBinaryPropertiesT

(***************************************************************************)
(* The previous-value snapshots.                                           *)
(***************************************************************************)
\* InitialiseMassTransfer is about to circularise the binary to its periapsis
CircularisesNow ==
    /\ pc = "EvaluateBinary"
    /\ opt.CirculariseBinaryDuringMassTransfer
    /\ ~BothCH(opt, Now)
    /\ \E w \in {InitialiseStars(Now)} : w.star1.isRLOF \/ w.star2.isRLOF

\* C21 (amended): outside EvaluateBinary the previous separation and eccentricity equal the
\* current ones, so that when EvaluateBinary begins they are the values of the start of the
\* timestep; until the snapshot at the end of EvaluateBinary they are modified only by
\* InitialiseMassTransfer when it circularises the binary for mass transfer, which sets
\* them to the circularised separation and to eccentricity 0.
C21_PreviousValues ==
    /\ [](pc \in {"constructed", "loop", "EvaluateBinary"} =>
             bin.aPrev = bin.a /\ bin.ePrev = bin.e)
    /\ [][/\ pc = "EvaluateBinary" =>
                IF CircularisesNow
                THEN bin'.aPrev = bin'.a /\ bin'.ePrev = Zero /\ bin'.e = Zero
                ELSE bin'.aPrev = bin.aPrev /\ bin'.ePrev = bin.ePrev
          /\ pc \in {"constructed", "loop", "ResolveBinary"} =>
                bin'.aPrev = bin.aPrev /\ bin'.ePrev = bin.ePrev
          /\ pc = "AfterEvent" => bin'.aPrev = bin'.a /\ bin'.ePrev = bin'.e]_vars

\* an eccentric binary was circularised for mass transfer, and its previous values with it
C21_Witness ==
    /\ pc = "ResolveBinary"
    /\ opt.CirculariseBinaryDuringMassTransfer
    /\ bin.massTransfer
    /\ bin.e = Zero /\ bin.ePrev = Zero
    /\ Compare(bin.eInitial, Zero) > 0
    /\ bin.aPrev = bin.a
    /\ RLt(bin.aPrev, bin.aInitial)

\* C21 as the claim states it: from the end of one EvaluateBinary to the snapshot at the
\* end of the next the previous values are never modified
C21_PreviousNeverModified ==
    [][(pc \in {"constructed", "loop", "EvaluateBinary", "ResolveBinary"}) =>
          /\ bin.aPrev = bin'.aPrev
          /\ bin.ePrev = bin'.ePrev]_vars

(***************************************************************************)
(* C22: the total-mass bookkeeping at the checkpoints.                     *)
(***************************************************************************)
\* C22: after construction and at the end of every EvaluateBinary the recorded total
\* mass is the sum of the two stars' current masses, and at the end of every
\* EvaluateBinary the recorded previous total mass is the total mass that the
\* preceding checkpoint (construction, or the end of the EvaluateBinary before)
\* left recorded.
C22_TotalMassAtCheckpoints ==
    /\ [](pc = "constructed" =>
             /\ Compare(bin.totalMass, RAdd(star1.mass, star2.mass)) = 0
             /\ Compare(bin.totalMassPrev, bin.totalMass) = 0)
    /\ [][(pc = "AfterEvent") =>
             /\ Compare(bin'.totalMass, RAdd(star1'.mass, star2'.mass)) = 0
             /\ Compare(bin'.totalMassPrev, ev.totalMassRecorded) = 0]_vars

(***************************************************************************)
(* C23: the sign of the semi-major axis at the end of EvaluateBinary.      *)
(***************************************************************************)
\* m_SemiMajorAxisPrev + m_aMassLossDiff + m_aMassTransferDiff, what ResolveMassChanges
\* assigns to the semi-major axis, is the semi-major axis and is not positive
MassChangesCancelSeparation ==
    /\ bin.a = RAdd(bin.aPrev, RAdd(bin.aMassLossDiff, bin.aMassTransferDiff))
    /\ Compare(bin.a, Zero) <= 0

Pairs == {<<0, 0>>, <<1, 2>>, <<2, 1>>}

\* this call of CalculateMassTransfer comes to "one, and only one, star is overflowing"
TransfersFromOneDonor ==
    /\ pc = "EvaluateBinary"
    /\ \E w \in {InitialiseMassTransfer(opt, Now)} :
          /\ ~Unbound(w)
          /\ opt.UseMassTransfer
          /\ w.star1.isRLOF # w.star2.isRLOF
          /\ ~(BothCH(opt, w) /\ HasStarsTouching(w))

\* C24 (amended): the event-scoped references are unset after construction and are
\* never reset afterwards.  A call of CalculateMassTransfer that finds exactly one
\* star overflowing leaves donor and accretor designating that star and the other
\* one; any other call, and every other step, leaves them as they were.  A step that
\* evaluates supernovae leaves supernova and companion as they were or designating a
\* star flagged before the step, whose supernova it resolved, and the other star;
\* every other step leaves them as they were.  Whenever set, the two references of
\* a pair are the binary's two distinct stars.
C24_EventReferences ==
    /\ [](<<bin.donor, bin.accretor>> \in Pairs /\ <<bin.supernova, bin.companion>> \in Pairs)
    /\ [](pc = "constructed" =>
             <<bin.donor, bin.accretor, bin.supernova, bin.companion>> = <<0, 0, 0, 0>>)
    /\ [][/\ IF TransfersFromOneDonor
             THEN /\ bin'.donor = (IF star2'.isRLOF THEN 2 ELSE 1)
                  /\ bin'.accretor = (IF star2'.isRLOF THEN 1 ELSE 2)
                  /\ star1'.isRLOF # star2'.isRLOF
             ELSE bin'.donor = bin.donor /\ bin'.accretor = bin.accretor
          /\ IF pc \in {"ResolveBinary", "AfterEvent"}
             THEN \/ bin'.supernova = bin.supernova /\ bin'.companion = bin.companion
                  \/ bin'.supernova = 1 /\ star1.snEvent /\ ~star1'.snEvent
                  \/ bin'.supernova = 2 /\ star2.snEvent /\ ~star2'.snEvent
             ELSE bin'.supernova = bin.supernova /\ bin'.companion = bin.companion]_vars

\* a call of CalculateMassTransfer has found no star overflowing and the donor of an
\* earlier timestep is still designated
C24_Witness ==
    /\ pc = "ResolveBinary"
    /\ ev.stepNum >= 2
    /\ ~star1.isRLOF /\ ~star2.isRLOF
    /\ ~bin.massTransfer
    /\ bin.donor = 2 /\ bin.accretor = 1

\* C24 as the claim states it: after a call of CalculateMassTransfer donor and accretor
\* are unset or the ones that call determined, and after a step that evaluates
\* supernovae supernova and companion are unset or designate a star whose supernova
\* the step resolved; whenever set they are the two distinct stars.
C24_ResetAtTheTop ==
    /\ [](<<bin.donor, bin.accretor>> \in Pairs /\ <<bin.supernova, bin.companion>> \in Pairs)
    /\ [][/\ (pc = "EvaluateBinary") =>
                IF TransfersFromOneDonor
                THEN /\ bin'.donor = (IF star2'.isRLOF THEN 2 ELSE 1)
                     /\ bin'.accretor = (IF star2'.isRLOF THEN 1 ELSE 2)
                ELSE bin'.donor = 0 /\ bin'.accretor = 0
          /\ (pc = "ResolveBinary" /\ (star1.snEvent \/ star2.snEvent)) =>
                \/ bin'.supernova = 0 /\ bin'.companion = 0
                \/ bin'.supernova = 1 /\ star1.snEvent /\ ~star1'.snEvent
                \/ bin'.supernova = 2 /\ star2.snEvent /\ ~star2'.snEvent]_vars

(***************************************************************************)
(* C25: the unknown angular-momentum-loss prescription.                    *)
(***************************************************************************)
UnknownPrescription == opt.MassTransferAngularMomentumLossPrescription \notin KnownPrescriptions

\* C25 (amended): with an unknown prescription, a CalculateMassTransfer that comes to
\* the transfer from one donor and does not flag a common envelope by the critical
\* mass ratio calls CalculateGammaAngularMomentumLoss, which returns gamma = 1 (the
\* zeta of the Roche lobe is the one computed with gamma = 1) and sets the error flag
\* to UNKNOWN_MT_ANGULAR_MOMENTUM_LOSS_PRESCRIPTION; the flag is set by nothing else,
\* and Evolve ends in that timestep, with BINARY_ERROR unless the step budget, a
\* merger, touching stars or an unwanted unbound binary decide the status.
C25_UnknownPrescription ==
    /\ [][IF /\ UnknownPrescription
             /\ TransfersFromOneDonor
             /\ ~(qCritFlag(opt) /\ ev'.ext.massRatioUnstable)
          THEN /\ bin'.error = "UNKNOWN_MT_ANGULAR_MOMENTUM_LOSS_PRESCRIPTION"
               /\ \E w \in {InitialiseMassTransfer(opt, Now)} :
                     bin'.zetaLobe =
                         CalculateZRocheLobe(StarOf(w, bin'.donor).mass,
                                             StarOf(w, bin'.accretor).mass,
                                             ev'.ext.fractionAccreted, One)
          ELSE bin'.error = bin.error]_vars
    /\ [][(pc = "AfterEvent" /\ bin.error = "UNKNOWN_MT_ANGULAR_MOMENTUM_LOSS_PRESCRIPTION") =>
             /\ pc' = "done"
             /\ ev'.status \in {"BINARY_ERROR", "STEPS_UP", "STELLAR_MERGER",
                                "STARS_TOUCHING", "UNBOUND"}]_vars

\* Evolve has ended with the error status that the unknown prescription caused
C25_Witness ==
    /\ pc = "done"
    /\ UnknownPrescription
    /\ bin.error = "UNKNOWN_MT_ANGULAR_MOMENTUM_LOSS_PRESCRIPTION"
    /\ bin.massTransfer
    /\ ev.status = "BINARY_ERROR"

\* C25 as the claim states it: with an unknown prescription the error flag stays
\* ERROR::NONE and Evolve does not end with an error status.
C25_HandledLocally ==
    UnknownPrescription =>
        /\ bin.error = "NONE"
        /\ ev.status \notin {"BINARY_ERROR", "SSE_ERROR"}

(***************************************************************************)
(* C26: the substeps of CalculateMassTransferOrbit.                        *)
(***************************************************************************)
\* the substeps of an integration that moves deltaM from a donor of mass massD: there
\* is at least one, none moves more than the largest fraction of massD, and together
\* they move deltaM
SubstepsWithinFraction(deltaM, massD) ==
    \E n \in {NumberIterations(deltaM, massD)} :
    \E dM \in {RDiv(deltaM, Q(n, 1))} :
       /\ n >= 1
       /\ Compare(RAbs(dM), RMul(MAXIMUM_MASS_TRANSFER_FRACTION_PER_STEP, massD)) <= 0
       /\ Compare(RMul(Q(n, 1), dM), deltaM) = 0

\* C26: whenever CalculateMassTransfer integrates the orbit for a stable transfer, the
\* number of substeps is at least 1, the mass moved in each substep is at most
\* MAXIMUM_MASS_TRANSFER_FRACTION_PER_STEP times the donor's mass at the start of the
\* integration, and the substeps' mass changes sum to the donor's whole mass change.
C26_SubstepsBounded ==
    [][(TransfersFromOneDonor /\ bin'.tracker \in {StableTracker(TRUE), StableTracker(FALSE)}) =>
          \E w \in {InitialiseMassTransfer(opt, Now)} :
          \E after \in {[star1 |-> star1', star2 |-> star2', bin |-> bin']} :
             SubstepsWithinFraction(StarOf(after, bin'.donor).mtDiff,
                                    StarOf(w, bin'.donor).mass)]_vars

(***************************************************************************)
(* C27: every supernova that EvaluateSupernovae meets is resolved.         *)
(***************************************************************************)
SupernovaFlagged == star1.snEvent \/ star2.snEvent

\* the immediate event of this EvaluateBinary is the common envelope
CommonEnvelopeBranch == (bin.CEEnow \/ bin.stellarMerger) /\ ~BothCH(opt, Now)

\* ResolveSupernova has run for every star that was flagged: no star is flagged any
\* more, m_Supernova is the star resolved last and the state records a supernova
FlaggedStarsResolved ==
    /\ ~star1'.snEvent /\ ~star2'.snEvent
    /\ bin'.supernova = (IF star2.snEvent THEN 2 ELSE 1)
    /\ bin'.companion = (IF star2.snEvent THEN 1 ELSE 2)
    /\ bin'.supernovaState # "NONE"

\* C27: whenever EvaluateSupernovae is reached while a star is flagged (as the immediate
\* event, or at the end of EvaluateBinary after mass changes or a common envelope), the
\* supernova of every flagged star is resolved in that call and its flag cleared, in an
\* unbound binary too; no star is flagged when EvaluateBinary returns.
C27_SupernovaeResolved ==
    [][/\ (pc = "ResolveBinary" /\ SupernovaFlagged /\ ~CommonEnvelopeBranch) =>
             FlaggedStarsResolved
       /\ (pc = "AfterEvent" /\ SupernovaFlagged) => FlaggedStarsResolved
       /\ (pc = "AfterEvent") => ~star1'.snEvent /\ ~star2'.snEvent]_vars

(***************************************************************************)
(* C28: the total time of the Be-binary record.                            *)
(***************************************************************************)
\* this step stashes the Be-binary properties: the pointers are switched
BeBinaryStashed ==
    pc = "AfterEvent" /\ bin'.BeBinaryDetails.currentProps # bin.BeBinaryDetails.currentProps

\* C28: after every stash of the Be-binary properties that takes effect, the total time
\* of the current record is the total time of the previous record plus the current
\* timestep, so that it is the sum of the timesteps of all stashes so far.
C28_TotalTimeAccumulates ==
    [][BeBinaryStashed =>
          \E details \in {bin'.BeBinaryDetails} :
             Slot(details, details.currentProps).totalTime =
                 RAdd(Slot(details, details.previousProps).totalTime, bin'.dt)]_vars

(***************************************************************************)
(* C29: the stages of EvaluateBinary.                                      *)
(***************************************************************************)
\* the mass that ResolveMassChanges gives a star: MassPrev + MassLossDiff + MassTransferDiff
MassChangesApplied(before, after) ==
    \/ after.snEvent /\ ~before.snEvent
    \/ after.mass = RAdd(before.massPrev, RAdd(after.mlDiff, after.mtDiff))

SupernovaeNotEvaluated ==
    /\ bin'.supernovaState = bin.supernovaState
    /\ bin'.supernova = bin.supernova
    /\ star1.snEvent => star1'.snEvent
    /\ star2.snEvent => star2'.snEvent

\* C29: the stages of EvaluateBinary run in the order mass-transfer calculation (after
\* the preamble), wind mass loss, event resolution, bookkeeping: the winds see the
\* mass-transfer flag of this timestep, the event sees the flags of this timestep, the
\* bookkeeping records the orbit the event left.  Exactly one resolution branch runs:
\* the common envelope when a common envelope or a merger is flagged and the stars are
\* not both chemically homogeneous with CHE enabled, else the evaluation of supernovae
\* when a star is flagged, else the application of the mass changes.  The count of
\* common-envelope events goes up by at most one in a timestep, and the CE-now flag
\* stays as the timestep left it until the next mass-transfer calculation, after which
\* it is set only if that calculation flagged a common envelope.
C29_StagesInOrder ==
    [][/\ (pc = "EvaluateBinary") =>
             /\ pc' = "ResolveBinary"
             /\ bin'.CEEcount = bin.CEEcount
             /\ bin'.supernovaState = bin.supernovaState
             /\ bin'.CEEnow =>
                   /\ ~bin'.unbound /\ opt.UseMassTransfer
                   /\ star1'.isRLOF \/ star2'.isRLOF
                   /\ bin'.tracker = "NO_MASS_TRANSFER"
       /\ (pc = "ResolveBinary") =>
             /\ pc' = "AfterEvent"
             /\ (opt.UseMassTransfer /\ bin.massTransfer) =>
                   /\ bin'.aMassLossDiff = Zero
                   /\ star1'.mlDiff = Zero /\ star2'.mlDiff = Zero
             /\ IF CommonEnvelopeBranch
                THEN /\ bin'.CEEcount = bin.CEEcount + 1
                     /\ SupernovaeNotEvaluated
                ELSE IF SupernovaFlagged
                THEN /\ bin'.CEEcount = bin.CEEcount
                     /\ FlaggedStarsResolved
                     /\ star1'.mass = star1.mass /\ star2'.mass = star2.mass
                ELSE /\ bin'.CEEcount = bin.CEEcount
                     /\ SupernovaeNotEvaluated
                     /\ MassChangesApplied(star1, star1')
                     /\ MassChangesApplied(star2, star2')
                     /\ bin'.a = RAdd(bin.aPrev,
                                      RAdd(bin'.aMassLossDiff, bin'.aMassTransferDiff))
       /\ (pc = "AfterEvent") =>
             /\ pc' \in {"loop", "done"}
             /\ bin'.CEEcount = bin.CEEcount
             /\ bin'.aPrev = bin'.a /\ bin'.ePrev = bin'.e
       /\ (pc \in {"ResolveBinary", "AfterEvent", "loop", "constructed"}) =>
             bin'.CEEnow = bin.CEEnow
       /\ (pc \in {"loop", "constructed"}) => bin'.CEEcount = bin.CEEcount]_vars

\* a common envelope was resolved in one timestep and survived, and the mass-transfer
\* calculation of the next timestep, which finds no star overflowing, has cleared the
\* CE-now flag
C29_Witness ==
    /\ pc = "ResolveBinary"
    /\ bin.CEEcount = 1
    /\ ~bin.CEEnow
    /\ ~bin.stellarMerger
    /\ ~bin.massTransfer
    /\ ev.stepNum >= 2

(***************************************************************************)
(* C30: the stellar-merger flag.                                           *)
(***************************************************************************)
\* the step sets m_StellarMerger
MergerIsSet == ~bin.stellarMerger /\ bin'.stellarMerger

\* C30: m_StellarMerger is never reset; it is set before the loop, when the stars touch,
\* or inside EvaluateBinary, and then the rest of that EvaluateBinary is all that runs:
\* Evolve leaves its loop in the same iteration and no later timestep is evolved or
\* evaluated.  m_StellarMergerAtBirth is set only by Evolve before the loop, when the
\* stars are touching, and then Evolve returns STELLAR_MERGER_AT_BIRTH with no timestep
\* evolved.
C30_MergerIsTerminal ==
    /\ [][bin.stellarMerger => bin'.stellarMerger]_vars
    /\ [][MergerIsSet => pc \in {"constructed", "EvaluateBinary", "ResolveBinary"}]_vars
    /\ [][/\ bin.stellarMerger => /\ pc' \in {"AfterEvent", "done"}
                                  /\ ev'.iterations = ev.iterations
                                  /\ ev'.stepNum = ev.stepNum
                                  /\ bin'.time = bin.time
          /\ (pc = "AfterEvent" /\ bin.stellarMerger) =>
                 pc' = "done" /\ ev'.status \in {"STELLAR_MERGER", "STEPS_UP"}]_vars
    /\ [](bin.stellarMerger => pc \in {"ResolveBinary", "AfterEvent", "done"})
    /\ [][bin.stellarMergerAtBirth => bin'.stellarMergerAtBirth]_vars
    /\ [][bin'.stellarMergerAtBirth # bin.stellarMergerAtBirth =>
              pc = "constructed" /\ HasStarsTouching(Now)]_vars
    /\ [][(pc = "constructed" /\ HasStarsTouching(Now)) => bin'.stellarMergerAtBirth]_vars
    /\ [](bin.stellarMergerAtBirth =>
              /\ pc = "done"
              /\ bin.stellarMerger
              /\ ev.status = "STELLAR_MERGER_AT_BIRTH"
              /\ ev.iterations = 0 /\ ev.stepNum = 0
              /\ bin.time = Zero)

\* the stars merged in a timestep after the first, and Evolve has returned
C30_Witness ==
    /\ pc = "done"
    /\ bin.stellarMerger
    /\ ~bin.stellarMergerAtBirth
    /\ ev.status = "STELLAR_MERGER"
    /\ ev.iterations >= 2

====
